---------------------------- MODULE Spec2Model ----------------------------
(***************************************************************************)
(* Verification model of NimbusStore (nebulastore): the request-coalescing *)
(* primitive SingleFlight, the SliceTree layout manager, the metadata      *)
(* engine (MetaPartition over the RocksDB store, MetadataServiceImpl,      *)
(* RocksDBTransaction, inode id allocation), the KVMetaEngine layout, the  *)
(* S3 gateway (S3Router, S3MetadataStore, S3Handler), NamespaceService,    *)
(* the value codecs of RocksDBStore, and the coroutine primitives          *)
(* Semaphore, BoundedQueue, CoroutinesPool and IoRing.  Each component has *)
(* its own variables, actions and specification.                           *)
(***************************************************************************)
EXTENDS Integers, Sequences, FiniteSets, TLC

(***************************************************************************)
(* Bounds of the model.                                                    *)
(***************************************************************************)
NumThreads == 3        \* threads calling into SingleFlight
NumKeys == 1           \* keys used with SingleFlight
MaxSfOps == 4          \* SingleFlight operations started in one behaviour
MaxCalls == 3          \* Call objects allocated in one behaviour
NumFnValues == 2       \* distinct values fn may return

Threads == 1..NumThreads
Keys == 1..NumKeys
FnValues == 1..NumFnValues

(***************************************************************************)
(* SingleFlight<T, Key>   (include/nebulastore/common/singleflight.h)      *)
(***************************************************************************)
VARIABLES
    calls_,      \* std::unordered_map<Key, shared_ptr<Call>>: key -> Call id, NoCall if absent
    callObj,     \* the Call objects: id -> [done, val, err]
    nCalls,      \* number of Call objects made so far (make_shared<Call>)
    sfPc,        \* position of each thread inside Do / TryPiggyback
    sfLocal,     \* locals of each thread: [op, key, c]
    fnCount,     \* history: per key, how many times fn has been invoked
    fnRunning,   \* history: per key, the threads now inside fn
    fnResult,    \* history: per Call, what its fn produced (NoResult, Thrown or a value)
    sfHist,      \* history: the returns of finished Do / TryPiggyback calls
    sfForgot,    \* history: per key, Forget(key) has been called
    sfForgotInFlight, \* history: per key, Forget(key) removed an entry still in flight
    sfFirst,     \* history: per key, the first Call registered for it
    sfLate,      \* history: per key, a Do looked the key up after the first call's fn returned
    sfOps        \* number of operations started

sfVars == <<calls_, callObj, nCalls, sfPc, sfLocal, fnCount, fnRunning, fnResult,
            sfHist, sfForgot, sfForgotInFlight, sfFirst, sfLate, sfOps>>

NoCall == 0
DefaultT == 0          \* T{}: the value-initialised result
NoResult == [kind |-> "none", val |-> DefaultT]
Thrown == [kind |-> "thrown", val |-> DefaultT]
Returned(v) == [kind |-> "value", val |-> v]
TValues == {DefaultT} \cup FnValues

\* struct Call { mutex mu; condition_variable cv; bool done = false; T val{}; exception_ptr err; }
NewCall == [done |-> FALSE, val |-> DefaultT, err |-> FALSE]

SfInit ==
    /\ calls_ = [k \in Keys |-> NoCall]
    /\ callObj = [c \in 1..MaxCalls |-> NewCall]
    /\ nCalls = 0
    /\ sfPc = [t \in Threads |-> "idle"]
    /\ sfLocal = [t \in Threads |-> [op |-> "none", key |-> 1, c |-> NoCall]]
    /\ fnCount = [k \in Keys |-> 0]
    /\ fnRunning = [k \in Keys |-> {}]
    /\ fnResult = [c \in 1..MaxCalls |-> NoResult]
    /\ sfHist = {}
    /\ sfForgot = [k \in Keys |-> FALSE]
    /\ sfForgotInFlight = [k \in Keys |-> FALSE]
    /\ sfFirst = [k \in Keys |-> NoCall]
    /\ sfLate = [k \in Keys |-> FALSE]
    /\ sfOps = 0

\* calls_.find(key): the Call in flight for key, NoCall for calls_.end()
SfFindMutNeverFound(k) == NoCall
SfFind(k) == calls_[k]

\* calls_[key] = c
SfRegisterMutNotStored(k, c) == calls_
SfRegister(k, c) == [calls_ EXCEPT ![k] = c]

\* calls_.erase(key): by key, whichever Call the entry holds
SfErase(k) == [calls_ EXCEPT ![k] = NoCall]

\* The value left in c->val by `return std::move(c->val)`: for a T whose move
\* constructor takes the source's contents it is valid but unspecified.
MovedFrom(v) == TValues

\* Do, lines 19-30: under mu_, join the Call in flight or register a new one.
DoLookup(t, k) ==
    /\ sfPc[t] = "idle"
    /\ sfOps < MaxSfOps
    /\ sfOps' = sfOps + 1
    /\ sfLate' = [sfLate EXCEPT ![k] =
                    @ \/ (sfFirst[k] # NoCall /\ fnResult[sfFirst[k]] # NoResult)]
    /\ IF SfFind(k) # NoCall
       THEN /\ sfLocal' = [sfLocal EXCEPT ![t] = [op |-> "Do", key |-> k, c |-> SfFind(k)]]
            /\ sfPc' = [sfPc EXCEPT ![t] = "wait"]
            /\ UNCHANGED <<calls_, nCalls, sfFirst>>
       ELSE /\ nCalls < MaxCalls
            /\ nCalls' = nCalls + 1
            /\ calls_' = SfRegister(k, nCalls + 1)
            /\ sfLocal' = [sfLocal EXCEPT ![t] = [op |-> "Do", key |-> k, c |-> nCalls + 1]]
            /\ sfPc' = [sfPc EXCEPT ![t] = "call_fn"]
            /\ sfFirst' = [sfFirst EXCEPT ![k] = IF @ = NoCall THEN nCalls + 1 ELSE @]
    /\ UNCHANGED <<callObj, fnCount, fnRunning, fnResult, sfHist, sfForgot, sfForgotInFlight>>

\* Do, line 33: fn is invoked.
FnInvoke(t) ==
    /\ sfPc[t] = "call_fn"
    /\ sfPc' = [sfPc EXCEPT ![t] = "in_fn"]
    /\ fnCount' = [fnCount EXCEPT ![sfLocal[t].key] = @ + 1]
    /\ fnRunning' = [fnRunning EXCEPT ![sfLocal[t].key] = @ \cup {t}]
    /\ UNCHANGED <<calls_, callObj, nCalls, sfLocal, fnResult, sfHist, sfForgot,
                   sfForgotInFlight, sfFirst, sfLate, sfOps>>

\* Do, lines 32-36: fn returns v into c->val.
FnReturn(t, v) ==
    /\ sfPc[t] = "in_fn"
    /\ sfPc' = [sfPc EXCEPT ![t] = "erase"]
    /\ callObj' = [callObj EXCEPT ![sfLocal[t].c].val = v]
    /\ fnResult' = [fnResult EXCEPT ![sfLocal[t].c] = Returned(v)]
    /\ fnRunning' = [fnRunning EXCEPT ![sfLocal[t].key] = @ \ {t}]
    /\ UNCHANGED <<calls_, nCalls, sfLocal, fnCount, sfHist, sfForgot,
                   sfForgotInFlight, sfFirst, sfLate, sfOps>>

\* Do, lines 32-36: fn throws; the exception is kept in c->err.
FnThrow(t) ==
    /\ sfPc[t] = "in_fn"
    /\ sfPc' = [sfPc EXCEPT ![t] = "erase"]
    /\ callObj' = [callObj EXCEPT ![sfLocal[t].c].err = TRUE]
    /\ fnResult' = [fnResult EXCEPT ![sfLocal[t].c] = Thrown]
    /\ fnRunning' = [fnRunning EXCEPT ![sfLocal[t].key] = @ \ {t}]
    /\ UNCHANGED <<calls_, nCalls, sfLocal, fnCount, sfHist, sfForgot,
                   sfForgotInFlight, sfFirst, sfLate, sfOps>>

\* Do, lines 38-41: under mu_, calls_.erase(key).
DoErase(t) ==
    /\ sfPc[t] = "erase"
    /\ sfPc' = [sfPc EXCEPT ![t] = "notify"]
    /\ calls_' = SfErase(sfLocal[t].key)
    /\ UNCHANGED <<callObj, nCalls, sfLocal, fnCount, fnRunning, fnResult, sfHist,
                   sfForgot, sfForgotInFlight, sfFirst, sfLate, sfOps>>

\* Do, lines 43-47: under c->mu, done = true; then notify_all.
DoNotify(t) ==
    /\ sfPc[t] = "notify"
    /\ sfPc' = [sfPc EXCEPT ![t] = "ret"]
    /\ callObj' = [callObj EXCEPT ![sfLocal[t].c].done = TRUE]
    /\ UNCHANGED <<calls_, nCalls, sfLocal, fnCount, fnRunning, fnResult, sfHist,
                   sfForgot, sfForgotInFlight, sfFirst, sfLate, sfOps>>

\* Do, lines 49-50: rethrow c->err, or return std::move(c->val) (no lock held).
DoReturn(t) ==
    /\ sfPc[t] = "ret"
    /\ sfPc' = [sfPc EXCEPT ![t] = "idle"]
    /\ LET c == sfLocal[t].c IN
         IF callObj[c].err
         THEN /\ sfHist' = sfHist \cup
                    {[t |-> t, op |-> "Do", role |-> "leader", c |-> c,
                      kind |-> "err", val |-> DefaultT]}
              /\ UNCHANGED callObj
         ELSE /\ sfHist' = sfHist \cup
                    {[t |-> t, op |-> "Do", role |-> "leader", c |-> c,
                      kind |-> "val", val |-> callObj[c].val]}
              /\ \E m \in MovedFrom(callObj[c].val) :
                    callObj' = [callObj EXCEPT ![c].val = m]
    /\ UNCHANGED <<calls_, nCalls, sfLocal, fnCount, fnRunning, fnResult,
                   sfForgot, sfForgotInFlight, sfFirst, sfLate, sfOps>>

\* wait, lines 78-83: under c->mu, block until done; rethrow c->err or return a copy of c->val.
WaitMutErrNotRethrown(t) ==
    /\ sfPc[t] = "wait"
    /\ callObj[sfLocal[t].c].done
    /\ sfPc' = [sfPc EXCEPT ![t] = "idle"]
    /\ LET c == sfLocal[t].c IN
         sfHist' = sfHist \cup
            {[t |-> t, op |-> sfLocal[t].op, role |-> "waiter", c |-> c,
              kind |-> "val", val |-> callObj[c].val]}
    /\ UNCHANGED <<calls_, callObj, nCalls, sfLocal, fnCount, fnRunning, fnResult,
                   sfForgot, sfForgotInFlight, sfFirst, sfLate, sfOps>>
Wait(t) ==
    /\ sfPc[t] = "wait"
    /\ callObj[sfLocal[t].c].done
    /\ sfPc' = [sfPc EXCEPT ![t] = "idle"]
    /\ LET c == sfLocal[t].c IN
         sfHist' = sfHist \cup
            {[t |-> t, op |-> sfLocal[t].op, role |-> "waiter", c |-> c,
              kind |-> IF callObj[c].err THEN "err" ELSE "val",
              val |-> IF callObj[c].err THEN DefaultT ELSE callObj[c].val]}
    /\ UNCHANGED <<calls_, callObj, nCalls, sfLocal, fnCount, fnRunning, fnResult,
                   sfForgot, sfForgotInFlight, sfFirst, sfLate, sfOps>>

\* TryPiggyback, lines 53-62: nullopt when no Call is in flight, else wait on it.
TryPiggyback(t, k) ==
    /\ sfPc[t] = "idle"
    /\ sfOps < MaxSfOps
    /\ sfOps' = sfOps + 1
    /\ IF SfFind(k) = NoCall
       THEN /\ sfHist' = sfHist \cup
                  {[t |-> t, op |-> "TryPiggyback", role |-> "none", c |-> NoCall,
                    kind |-> "nullopt", val |-> DefaultT]}
            /\ UNCHANGED <<sfPc, sfLocal>>
       ELSE /\ sfLocal' = [sfLocal EXCEPT ![t] =
                              [op |-> "TryPiggyback", key |-> k, c |-> SfFind(k)]]
            /\ sfPc' = [sfPc EXCEPT ![t] = "wait"]
            /\ UNCHANGED sfHist
    /\ UNCHANGED <<calls_, callObj, nCalls, fnCount, fnRunning, fnResult,
                   sfForgot, sfForgotInFlight, sfFirst, sfLate>>

\* Forget, lines 64-67: under mu_, calls_.erase(key).
Forget(t, k) ==
    /\ sfPc[t] = "idle"
    /\ sfOps < MaxSfOps
    /\ sfOps' = sfOps + 1
    /\ calls_' = SfErase(k)
    /\ sfForgot' = [sfForgot EXCEPT ![k] = TRUE]
    /\ sfForgotInFlight' = [sfForgotInFlight EXCEPT ![k] = @ \/ calls_[k] # NoCall]
    /\ UNCHANGED <<callObj, nCalls, sfPc, sfLocal, fnCount, fnRunning, fnResult,
                   sfHist, sfFirst, sfLate>>

SfNext ==
    \/ \E t \in Threads, k \in Keys : DoLookup(t, k)
    \/ \E t \in Threads : FnInvoke(t)
    \/ \E t \in Threads, v \in FnValues : FnReturn(t, v)
    \/ \E t \in Threads : FnThrow(t)
    \/ \E t \in Threads : DoErase(t)
    \/ \E t \in Threads : DoNotify(t)
    \/ \E t \in Threads : DoReturn(t)
    \/ \E t \in Threads : Wait(t)
    \/ \E t \in Threads, k \in Keys : TryPiggyback(t, k)
    \/ \E t \in Threads, k \in Keys : Forget(t, k)

(***************************************************************************)
(* SliceTree   (src/metadata/rocksdb_store.cpp, slice_tree.h)              *)
(***************************************************************************)
MaxInserts == 5        \* Insert calls in one behaviour
MaxPos == 3            \* largest file position an Insert starts at
MaxLen == 2            \* largest length of an Insert
MaxOff == 1            \* largest offset in storage of an Insert

VARIABLES
    heap,        \* the SliceNode objects made so far: index -> node (shared_ptr targets)
    root_,       \* SliceTree::root_: index into heap, Null if empty
    treeStatus,  \* "ok", or "crashed" once an Insert has recursed without end
    inserted     \* history: the Insert calls made, in order

treeVars == <<heap, root_, treeStatus, inserted>>

Null == 0

\* SliceNode(pos_, id_, size_, off_, len_): left and right start null
SliceNode(pos, id, size, off, len) ==
    [pos |-> pos, id |-> id, size |-> size, off |-> off, len |-> len,
     left |-> Null, right |-> Null]

\* SliceNode::End
End(n) == n.pos + n.len

\* The depth no recursion over an acyclic structure of these nodes exceeds: a
\* deeper call chain has met a node twice and, the code having no visited
\* check, never ends.
Fuel(h) == Len(h) + 1

Diverged(h) == [h |-> h, r |-> Null, ok |-> FALSE]

\* SliceTree::InsertNode: BST insertion by pos; returns the heap and the subtree's root.
RECURSIVE InsertNode(_, _, _, _)
InsertNode(h, node, new_node, fuel) ==
    IF node = Null THEN [h |-> h, r |-> new_node, ok |-> TRUE]
    ELSE IF fuel = 0 THEN Diverged(h)
    ELSE IF h[new_node].pos < h[node].pos
         THEN LET sub == InsertNode(h, h[node].left, new_node, fuel - 1) IN
              IF ~sub.ok THEN Diverged(h)
              ELSE [h |-> [sub.h EXCEPT ![node].left = sub.r], r |-> node, ok |-> TRUE]
         ELSE LET sub == InsertNode(h, h[node].right, new_node, fuel - 1) IN
              IF ~sub.ok THEN Diverged(h)
              ELSE [h |-> [sub.h EXCEPT ![node].right = sub.r], r |-> node, ok |-> TRUE]

\* Cut, lines 530-532: the leftmost node of the subtree at n.
RECURSIVE MinNode(_, _, _)
MinNode(h, n, fuel) ==
    IF fuel = 0 THEN Null
    ELSE IF h[n].left = Null THEN n
    ELSE MinNode(h, h[n].left, fuel - 1)

\* Cut, lines 525-536: the node is covered entirely and is removed; with two
\* children the leftmost node of the right subtree takes its place and is
\* given node->right and node->left as its children.
CutDeleteMutKeepsNode(h, node) == [h |-> h, r |-> node, ok |-> TRUE]
CutDelete(h, node) ==
    IF h[node].left = Null THEN [h |-> h, r |-> h[node].right, ok |-> TRUE]
    ELSE IF h[node].right = Null THEN [h |-> h, r |-> h[node].left, ok |-> TRUE]
    ELSE LET min_node == MinNode(h, h[node].right, Fuel(h)) IN
         IF min_node = Null THEN Diverged(h)
         ELSE [h |-> [h EXCEPT ![min_node].right = h[node].right,
                               ![min_node].left = h[node].left],
               r |-> min_node, ok |-> TRUE]

\* Cut, lines 538-557: the node overlaps [pos, pos+len) in part and is trimmed,
\* or split in two when the new slice lies strictly inside it.
CutTrim(h, node, pos, len, node_end) ==
    LET end == pos + len
        nd == h[node]
    IN  IF nd.pos < pos /\ node_end > end
        THEN LET right_part == Len(h) + 1
                 h1 == Append(h, SliceNode(end, nd.id, nd.size,
                                           nd.off + (end - nd.pos), node_end - end))
                 h2 == [h1 EXCEPT ![node].len = pos - nd.pos]
                 sub == InsertNode(h2, h2[node].right, right_part, Fuel(h2))
             IN  IF ~sub.ok THEN Diverged(h)
                 ELSE [h |-> [sub.h EXCEPT ![node].right = sub.r], r |-> node, ok |-> TRUE]
        ELSE IF nd.pos < pos
        THEN [h |-> [h EXCEPT ![node].len = pos - nd.pos], r |-> node, ok |-> TRUE]
        ELSE LET cut_len == end - nd.pos IN
             [h |-> [h EXCEPT ![node].off = nd.off + cut_len,
                              ![node].len = nd.len - cut_len,
                              ![node].pos = end],
              r |-> node, ok |-> TRUE]

\* SliceTree::Cut: cuts both subtrees, then the node itself.
RECURSIVE Cut(_, _, _, _, _)
Cut(h, node, pos, len, fuel) ==
    IF node = Null THEN [h |-> h, r |-> Null, ok |-> TRUE]
    ELSE IF fuel = 0 THEN Diverged(h)
    ELSE
      LET end == pos + len
          node_end == End(h[node])
          l == Cut(h, h[node].left, pos, len, fuel - 1)
      IN  IF ~l.ok THEN Diverged(h)
          ELSE
            LET h1 == [l.h EXCEPT ![node].left = l.r]
                r == Cut(h1, h1[node].right, pos, len, fuel - 1)
            IN  IF ~r.ok THEN Diverged(h)
                ELSE
                  LET h2 == [r.h EXCEPT ![node].right = r.r] IN
                  IF node_end <= pos \/ h2[node].pos >= end
                  THEN [h |-> h2, r |-> node, ok |-> TRUE]
                  ELSE IF h2[node].pos >= pos /\ node_end <= end
                  THEN CutDelete(h2, node)
                  ELSE CutTrim(h2, node, pos, len, node_end)

\* SliceTree::Insert: Cut, then InsertNode of a new node.
InsertResult(h, root, pos, id, size, off, len) ==
    LET c == Cut(h, root, pos, len, Fuel(h)) IN
    IF ~c.ok THEN Diverged(h)
    ELSE LET new_node == Len(c.h) + 1
             h1 == Append(c.h, SliceNode(pos, id, size, off, len))
             i == InsertNode(h1, c.r, new_node, Fuel(h1))
         IN  IF ~i.ok THEN Diverged(h) ELSE i

\* SliceTree::InorderCollect: the nodes in order, or no result when the
\* recursion does not end.
RECURSIVE InorderCollect(_, _, _)
InorderCollect(h, node, fuel) ==
    IF node = Null THEN [s |-> <<>>, ok |-> TRUE]
    ELSE IF fuel = 0 THEN [s |-> <<>>, ok |-> FALSE]
    ELSE LET l == InorderCollect(h, h[node].left, fuel - 1)
             r == InorderCollect(h, h[node].right, fuel - 1)
         IN  [s |-> l.s \o <<node>> \o r.s, ok |-> l.ok /\ r.ok]

\* SliceTree::Find: the node whose range holds pos, Null for nullptr; ok is
\* FALSE when the loop does not end.
RECURSIVE FindFrom(_, _, _, _)
FindFrom(h, node, pos, fuel) ==
    IF node = Null THEN [r |-> Null, ok |-> TRUE]
    ELSE IF fuel = 0 THEN [r |-> Null, ok |-> FALSE]
    ELSE IF pos < h[node].pos THEN FindFrom(h, h[node].left, pos, fuel - 1)
    ELSE IF pos >= End(h[node]) THEN FindFrom(h, h[node].right, pos, fuel - 1)
    ELSE [r |-> node, ok |-> TRUE]

Find(pos) == FindFrom(heap, root_, pos, Fuel(heap))

\* SliceTree::RangeCollect: the subtree at node, in order, without the
\* subtrees that the position of node rules out; no result when the recursion
\* does not end.
RECURSIVE RangeCollect(_, _, _, _, _)
RangeCollect(h, node, start, end, fuel) ==
    IF node = Null THEN [s |-> <<>>, ok |-> TRUE]
    ELSE IF fuel = 0 THEN [s |-> <<>>, ok |-> FALSE]
    ELSE IF h[node].pos >= end THEN RangeCollect(h, h[node].left, start, end, fuel - 1)
    ELSE IF End(h[node]) <= start THEN RangeCollect(h, h[node].right, start, end, fuel - 1)
    ELSE LET l == RangeCollect(h, h[node].left, start, end, fuel - 1)
             r == RangeCollect(h, h[node].right, start, end, fuel - 1)
         IN  [s |-> l.s \o <<node>> \o r.s, ok |-> l.ok /\ r.ok]

\* SliceTree::GetRange
GetRange(start, end) == RangeCollect(heap, root_, start, end, Fuel(heap))

\* SliceTree::Build: one SliceInfo per node of the in-order traversal;
\* storage_key = key_prefix + "/" + to_string(id), kept as the pair.
Build(key_prefix) ==
    LET nodes == InorderCollect(heap, root_, Fuel(heap)) IN
    [ok |-> nodes.ok,
     slices |-> [i \in 1..Len(nodes.s) |->
                    [slice_id |-> heap[nodes.s[i]].id,
                     offset |-> heap[nodes.s[i]].pos,
                     size |-> heap[nodes.s[i]].len,
                     storage_key |-> <<key_prefix, heap[nodes.s[i]].id>>]]]

TreeInit ==
    /\ heap = <<>>
    /\ root_ = Null
    /\ treeStatus = "ok"
    /\ inserted = <<>>

\* tree.Insert(pos, id, size, off, len); the ids are those of successive writes.
Insert(pos, off, len) ==
    /\ treeStatus = "ok"
    /\ Len(inserted) < MaxInserts
    /\ LET id == Len(inserted) + 1
           res == InsertResult(heap, root_, pos, id, off + len, off, len)
       IN  /\ inserted' = Append(inserted, [pos |-> pos, id |-> id, off |-> off, len |-> len])
           /\ IF res.ok
              THEN heap' = res.h /\ root_' = res.r /\ UNCHANGED treeStatus
              ELSE treeStatus' = "crashed" /\ UNCHANGED <<heap, root_>>

TreeNext ==
    \E pos \in 0..MaxPos, off \in 0..MaxOff, len \in 1..MaxLen : Insert(pos, off, len)

(***************************************************************************)
(* Metadata engine: types (common/types), the RocksDB store                *)
(* (src/metadata/rocksdb_store.cpp), MetaPartition (two versions are in    *)
(* the repository: the cached one and the store-only one) and              *)
(* MetadataServiceImpl (src/metadata/metadata_service_impl.cpp).           *)
(* The KV store is taken to be reliable (Get/Write never return an I/O     *)
(* error); mtime/ctime are left out of the inode record.                   *)
(***************************************************************************)
NumPartitions == 2
RangeLen == 2
MaxPathLen == 4
MaxPartOps == 3
MaxSvcOps == 4
NumUsers == 1

Partitions == 1..NumPartitions
Users == 0..(NumUsers - 1)
Chars == {"/", "a"}
\* Path arguments: every absolute path of up to MaxPathLen characters with
\* no empty component, and four malformed ones (empty, relative, doubled
\* slash, trailing slash).
WellFormed(path) ==
    /\ Len(path) >= 1 /\ path[1] = "/"
    /\ Len(path) > 1 => path[Len(path)] # "/"
    /\ \A i \in 1..(Len(path) - 1) : ~(path[i] = "/" /\ path[i + 1] = "/")
Malformed == {<<>>, <<"a">>, <<"/", "/", "a">>, <<"/", "a", "/">>}
Paths == {path \in UNION {[1..n -> Chars] : n \in 1..MaxPathLen} :
             WellFormed(path)} \cup Malformed
Names == {<<"a">>, <<"b">>}
\* Inode ids used by the model: 1 is the root, MaxInode is the first id that
\* no partition's range contains.
MaxInode == 1 + NumPartitions * RangeLen
\* Inode ids offered to the direct partition calls: the first partition's
\* range and the first id of the second.
ApiInodes == 1..(RangeLen + 1)

VARIABLES
    impl,          \* the MetaPartition version in use: "none" | "cached" | "plain"
    parts,         \* parts[pt] = [db, inode_tree_, dentry_tree_] of partition pt
    next_inode_,   \* MetadataServiceImpl::next_inode_
    lastOp,        \* history: the last completed call and its Status
    made,          \* history: (pt,parent,name) -> inode of the create_dentry
                   \* that succeeded, while no delete intervened
    nOps,          \* history: number of calls made
    thr            \* the two concurrent Create calls (SpecConc)

metaVars == <<impl, parts, next_inode_, lastOp, made, nOps, thr>>

\* --- common/types -------------------------------------------------------
kRegular == 1
kDirectory == 2
kSymlink == 3
S_IFDIR == 16384
S_IFREG == 32768
\* FileMode values offered to the operations: a regular file (0100644), a
\* directory (0040755) and bare permission bits (0644).
Modes == {S_IFREG + 420, S_IFDIR + 493, 420}

\* (mode & 0170000) == 0040000
IsDirectory(mode) == ((mode \div 4096) % 16) * 4096 = S_IFDIR

InodeAttr(inode_id, mode, uid, gid, size, nlink) ==
    [inode_id |-> inode_id, mode |-> mode, uid |-> uid, gid |-> gid,
     size |-> size, nlink |-> nlink]
NoAttr == InodeAttr(0, 0, 0, 0, 0, 0)
Dentry(name, inode_id, type) ==
    [name |-> name, inode_id |-> inode_id, type |-> type]
NoDentry == Dentry(<<>>, 0, 0)

\* --- ordered maps (rocksdb::DB, std::map) -------------------------------
EmptyMap == [x \in {} |-> 0]
Put(f, k, v) == [x \in DOMAIN f \cup {k} |-> IF x = k THEN v ELSE f[x]]
Del(f, k) == [x \in DOMAIN f \ {k} |-> f[x]]
\* BTree::Insert is std::map::emplace: an existing key keeps its value.
BTreeInsert(f, k, v) == IF k \in DOMAIN f THEN f ELSE Put(f, k, v)

\* --- RocksDBStore: keys, values, lookups --------------------------------
EncodeDentryKey(parent, name) == <<"D", parent, name>>
EncodeInodeKey(inode) == <<"I", inode>>
\* The dentry value holds inode_id (8 bytes) and type (4 bytes), not the name;
\* the inode value holds every field at its width (8 or 4 bytes).  All
\* values of the model fit their fields.
EncodeDentryValue(dentry) == [inode_id |-> dentry.inode_id, type |-> dentry.type]
DecodeDentryValue(value) == Dentry(<<>>, value.inode_id, value.type)
EncodeInodeValue(attr) ==
    [inode_id |-> attr.inode_id, mode |-> attr.mode, uid |-> attr.uid,
     gid |-> attr.gid, size |-> attr.size, nlink |-> attr.nlink]
DecodeInodeValue(value) ==
    InodeAttr(value.inode_id, value.mode, value.uid, value.gid,
              value.size, value.nlink)

StoreLookupDentry(db, parent, name) ==
    LET key == EncodeDentryKey(parent, name) IN
    IF key \notin DOMAIN db
    THEN [st |-> "NotFound", dentry |-> NoDentry]
    ELSE [st |-> "OK", dentry |-> DecodeDentryValue(db[key])]

StoreLookupInode(db, inode) ==
    LET key == EncodeInodeKey(inode) IN
    IF key \notin DOMAIN db
    THEN [st |-> "NotFound", attr |-> NoAttr]
    ELSE [st |-> "OK", attr |-> DecodeInodeValue(db[key])]

\* RocksDBTransaction::CreateDentry + Commit: one Put in a write batch.
TxnCreateDentry(db, parent, name, inode, type) ==
    Put(db, EncodeDentryKey(parent, name),
        EncodeDentryValue(Dentry(name, inode, type)))

TxnCreateInodeMutNotWritten(db, inode, mode, uid, gid) == db

\* RocksDBTransaction::CreateInode + Commit.
TxnCreateInode(db, inode, mode, uid, gid) ==
    Put(db, EncodeInodeKey(inode),
        EncodeInodeValue(InodeAttr(inode, mode, uid, gid, 0, 1)))

\* RocksDBStore::DeleteDentry / DeleteInode are called by the store-only
\* MetaPartition but their bodies are not in the repository: a delete of
\* the record's key, NotFound-free as rocksdb::DB::Delete is.
StoreDeleteDentry(db, parent, name) == Del(db, EncodeDentryKey(parent, name))
StoreDeleteInode(db, inode) == Del(db, EncodeInodeKey(inode))

\* --- MetaPartition ------------------------------------------------------
start_inode(pt) == 1 + (pt - 1) * RangeLen
end_inode(pt) == start_inode(pt) + RangeLen

NewPartition == [db |-> EmptyMap, inode_tree_ |-> EmptyMap, dentry_tree_ |-> EmptyMap]

\* Cached version: memory BTree first, then the store, then cache fill.
Lookup(p, inode_id) ==
    IF inode_id \in DOMAIN p.inode_tree_
    THEN [st |-> "OK", p |-> p, attr |-> p.inode_tree_[inode_id]]
    ELSE LET r == StoreLookupInode(p.db, inode_id) IN
         IF r.st # "OK"
         THEN [st |-> r.st, p |-> p, attr |-> NoAttr]
         ELSE [st |-> "OK",
               p |-> [p EXCEPT !.inode_tree_ = BTreeInsert(@, inode_id, r.attr)],
               attr |-> r.attr]

LookupDentry(p, parent, name) ==
    IF <<parent, name>> \in DOMAIN p.dentry_tree_
    THEN [st |-> "OK", p |-> p, dentry |-> p.dentry_tree_[<<parent, name>>]]
    ELSE LET r == StoreLookupDentry(p.db, parent, name) IN
         IF r.st # "OK"
         THEN [st |-> r.st, p |-> p, dentry |-> NoDentry]
         ELSE [st |-> "OK",
               p |-> [p EXCEPT !.dentry_tree_ =
                                  BTreeInsert(@, <<parent, name>>, r.dentry)],
               dentry |-> r.dentry]

\* CreateDentry, steps 1-2: parent exists, parent is a directory, the name
\* is free.  "OK" means the checks passed.
CreateDentryCheck(p, parent, name) ==
    LET l == Lookup(p, parent) IN
    IF l.st # "OK" THEN [st |-> "NotFound", p |-> l.p]
    ELSE IF ~IsDirectory(l.attr.mode) THEN [st |-> "NotDirectory", p |-> l.p]
    ELSE LET d == LookupDentry(l.p, parent, name) IN
         IF d.st = "OK" THEN [st |-> "Exist", p |-> d.p]
         ELSE [st |-> "OK", p |-> d.p]

\* CreateDentry, steps 3-4: the transaction commits, then the cache insert.
CreateDentryCommit(p, parent, name, inode, type) ==
    [p EXCEPT !.db = TxnCreateDentry(@, parent, name, inode, type),
              !.dentry_tree_ = BTreeInsert(@, <<parent, name>>,
                                           Dentry(name, inode, type))]

CreateDentry(p, parent, name, inode, type) ==
    LET c == CreateDentryCheck(p, parent, name) IN
    IF c.st # "OK" THEN c
    ELSE [st |-> "OK", p |-> CreateDentryCommit(c.p, parent, name, inode, type)]

\* CreateInode, steps 1-2: the id is in the partition's range and is free.
CreateInodeCheckMutNoRangeCheck(pt, p, inode) ==
    LET l == Lookup(p, inode) IN
    IF l.st = "OK" THEN [st |-> "Exist", p |-> l.p]
    ELSE [st |-> "OK", p |-> l.p]
CreateInodeCheck(pt, p, inode) ==
    IF inode < start_inode(pt) \/ inode >= end_inode(pt)
    THEN [st |-> "InvalidArgument", p |-> p]
    ELSE LET l == Lookup(p, inode) IN
         IF l.st = "OK" THEN [st |-> "Exist", p |-> l.p]
         ELSE [st |-> "OK", p |-> l.p]

\* CreateInode, steps 3-4.
CreateInodeCommit(p, inode, mode, uid, gid) ==
    [p EXCEPT !.db = TxnCreateInode(@, inode, mode, uid, gid),
              !.inode_tree_ = BTreeInsert(@, inode,
                                          InodeAttr(inode, mode, uid, gid, 0, 1))]

CreateInode(pt, p, inode, mode, uid, gid) ==
    LET c == CreateInodeCheck(pt, p, inode) IN
    IF c.st # "OK" THEN c
    ELSE [st |-> "OK", p |-> CreateInodeCommit(c.p, inode, mode, uid, gid)]

\* Store-only version (no cache, no checks but the range check).
PlainLookup(p, inode_id) ==
    LET r == StoreLookupInode(p.db, inode_id) IN
    [st |-> r.st, p |-> p, attr |-> r.attr]

PlainLookupDentry(p, parent, name) ==
    LET r == StoreLookupDentry(p.db, parent, name) IN
    [st |-> r.st, p |-> p, dentry |-> r.dentry]

PlainCreateDentry(p, parent, name, inode, type) ==
    [st |-> "OK", p |-> [p EXCEPT !.db = TxnCreateDentry(@, parent, name, inode, type)]]

PlainCreateInodeCheck(pt, p, inode) ==
    IF inode < start_inode(pt) \/ inode >= end_inode(pt)
    THEN [st |-> "InvalidArgument", p |-> p]
    ELSE [st |-> "OK", p |-> p]

PlainCreateInode(pt, p, inode, mode, uid, gid) ==
    LET c == PlainCreateInodeCheck(pt, p, inode) IN
    IF c.st # "OK" THEN c
    ELSE [st |-> "OK", p |-> [p EXCEPT !.db = TxnCreateInode(@, inode, mode, uid, gid)]]

DeleteDentry(p, parent, name) ==
    [st |-> "OK", p |-> [p EXCEPT !.db = StoreDeleteDentry(@, parent, name)]]

DeleteInode(p, inode) ==
    [st |-> "OK", p |-> [p EXCEPT !.db = StoreDeleteInode(@, inode)]]

\* The calls as the service and the tests make them, on the linked version.
PartLookup(p, inode_id) ==
    IF impl = "cached" THEN Lookup(p, inode_id) ELSE PlainLookup(p, inode_id)
PartLookupDentry(p, parent, name) ==
    IF impl = "cached" THEN LookupDentry(p, parent, name)
    ELSE PlainLookupDentry(p, parent, name)
PartCreateDentry(p, parent, name, inode, type) ==
    IF impl = "cached" THEN CreateDentry(p, parent, name, inode, type)
    ELSE PlainCreateDentry(p, parent, name, inode, type)
PartCreateInode(pt, p, inode, mode, uid, gid) ==
    IF impl = "cached" THEN CreateInode(pt, p, inode, mode, uid, gid)
    ELSE PlainCreateInode(pt, p, inode, mode, uid, gid)

\* --- MetadataServiceImpl: path helpers ----------------------------------
RECURSIVE ParseFrom(_, _, _, _)
ParseFrom(path, i, part, parts_) ==
    IF i > Len(path)
    THEN IF part # <<>> THEN Append(parts_, part) ELSE parts_
    ELSE IF path[i] = "/"
         THEN ParseFrom(path, i + 1, <<>>,
                        IF part # <<>> THEN Append(parts_, part) ELSE parts_)
         ELSE ParseFrom(path, i + 1, Append(part, path[i]), parts_)

ParsePath(path) ==
    IF path = <<>> \/ path[1] # "/"
    THEN [ok |-> FALSE, parts |-> <<>>]
    ELSE [ok |-> TRUE, parts |-> ParseFrom(path, 2, <<>>, <<>>)]

\* std::string::rfind('/') as a 1-based index, 0 for npos.
RFindSlash(path) ==
    LET S == {i \in 1..Len(path) : path[i] = "/"} IN
    IF S = {} THEN 0 ELSE CHOOSE i \in S : \A j \in S : j <= i

\* With npos, substr(0, npos) and substr(npos + 1) are both the whole path.
SplitParentChild(path) ==
    IF path = <<"/">> \/ path = <<>>
    THEN [parent |-> <<"/">>, name |-> <<>>]
    ELSE LET pos == RFindSlash(path) IN
         IF pos = 1
         THEN [parent |-> <<"/">>, name |-> SubSeq(path, 2, Len(path))]
         ELSE IF pos = 0
         THEN [parent |-> path, name |-> path]
         ELSE [parent |-> SubSeq(path, 1, pos - 1),
               name |-> SubSeq(path, pos + 1, Len(path))]

LocatePartition(inode_id) ==
    LET S == {pt \in Partitions :
                 inode_id >= start_inode(pt) /\ inode_id < end_inode(pt)} IN
    IF S = {} THEN 1 ELSE CHOOSE pt \in S : \A q \in S : pt <= q

\* The value of a singleton set: Only({F(x) : x \in {e}}) is F(e), with e
\* evaluated once and named x.
Only(S) == CHOOSE x \in S : TRUE

RECURSIVE WalkPath(_, _, _, _)
WalkPath(P, parts_, i, current) ==
    IF i > Len(parts_) THEN [st |-> "OK", P |-> P, inode_id |-> current]
    ELSE LET pt == LocatePartition(current) IN
         Only({ IF r.st # "OK"
                THEN [st |-> "NotFound", P |-> [P EXCEPT ![pt] = r.p], inode_id |-> 0]
                ELSE WalkPath([P EXCEPT ![pt] = r.p], parts_, i + 1,
                              r.dentry.inode_id)
                : r \in {PartLookupDentry(P[pt], current, parts_[i])} })

LookupPath(P, path) ==
    LET r == ParsePath(path) IN
    IF ~r.ok THEN [st |-> "InvalidArgument", P |-> P, inode_id |-> 0]
    ELSE WalkPath(P, r.parts, 1, 1)

\* partition->LookupDentry(inode, name) on the partition that owns inode:
\* [st, P, dentry].
LookupDentryAt(P, inode, name) ==
    LET pt == LocatePartition(inode) IN
    Only({ [st |-> d.st, P |-> [P EXCEPT ![pt] = d.p], dentry |-> d.dentry]
           : d \in {PartLookupDentry(P[pt], inode, name)} })

\* --- MetadataServiceImpl::Create, step by step --------------------------
\* Lines 117-139: split, resolve the parent, check that the name is free.
\* "OK" means the call goes on to allocate an inode.
CreateResolve(P, path) ==
    LET sp == SplitParentChild(path) IN
    IF sp.name = <<>>
    THEN [st |-> "Exist", P |-> P, parent_inode |-> 0, name |-> sp.name]
    ELSE Only({
           IF l.st # "OK"
           THEN [st |-> "NotFound", P |-> l.P, parent_inode |-> 0, name |-> sp.name]
           ELSE Only({ [st |-> IF e.st = "OK" THEN "Exist" ELSE "OK", P |-> e.P,
                        parent_inode |-> l.inode_id, name |-> sp.name]
                       : e \in {LookupDentryAt(l.P, l.inode_id, sp.name)} })
           : l \in {LookupPath(P, sp.parent)} })

FileTypeOf(mode) == IF IsDirectory(mode) THEN kDirectory ELSE kRegular

\* Lines 141-153: create the inode on its partition, then the dentry on the
\* parent's partition; the dentry step's Status is the call's Status.
CreateStore(P, parent_inode, name, new_inode, mode, uid, gid) ==
    LET tp == LocatePartition(new_inode)
        pt == LocatePartition(parent_inode) IN
    Only({
      IF ci.st # "OK" THEN [st |-> ci.st, P |-> [P EXCEPT ![tp] = ci.p]]
      ELSE Only({
             Only({ [st |-> cd.st, P |-> [P1 EXCEPT ![pt] = cd.p]]
                    : cd \in {PartCreateDentry(P1[pt], parent_inode, name,
                                               new_inode, FileTypeOf(mode))} })
             : P1 \in {[P EXCEPT ![tp] = ci.p]} })
      : ci \in {PartCreateInode(tp, P[tp], new_inode, mode, uid, gid)} })

\* The whole call: [st, P, next] with next the value of next_inode_ after it.
Create(P, next, path, mode, uid, gid) ==
    Only({
      IF r.st # "OK" THEN [st |-> r.st, P |-> r.P, next |-> next]
      ELSE Only({ [st |-> c.st, P |-> c.P, next |-> next + 1]
                  : c \in {CreateStore(r.P, r.parent_inode, r.name, next,
                                       mode, uid, gid)} })
      : r \in {CreateResolve(P, path)} })

\* mode.mode | 0040000
Mkdir(P, next, path, mode, uid, gid) ==
    Create(P, next, path,
           IF (mode \div S_IFDIR) % 2 = 1 THEN mode ELSE mode + S_IFDIR,
           uid, gid)

\* Lines 235-268 and 272-305: the target is looked up and its type checked;
\* nothing is deleted.
UnlinkOrRmdir(P, path, rmdir) ==
    LET sp == SplitParentChild(path) IN
    IF sp.name = <<>> THEN [st |-> "InvalidArgument", P |-> P]
    ELSE Only({
           IF l.st # "OK" THEN [st |-> l.st, P |-> l.P]
           ELSE Only({
                  IF d.st # "OK" THEN [st |-> "NotFound", P |-> d.P]
                  ELSE IF ~rmdir /\ d.dentry.type = kDirectory
                  THEN [st |-> "InvalidArgument", P |-> d.P]
                  ELSE IF rmdir /\ d.dentry.type # kDirectory
                  THEN [st |-> "NotDirectory", P |-> d.P]
                  ELSE [st |-> "OK", P |-> d.P]
                  : d \in {LookupDentryAt(l.P, l.inode_id, sp.name)} })
           : l \in {LookupPath(P, sp.parent)} })

Unlink(P, path) == UnlinkOrRmdir(P, path, FALSE)
Rmdir(P, path) == UnlinkOrRmdir(P, path, TRUE)

\* Lines 346-356: the new dentry is created on the target parent's
\* partition; the old one stays.
RenameCreate(P, new_parent_inode, new_name, src_dentry) ==
    LET np == LocatePartition(new_parent_inode) IN
    Only({ [st |-> c.st, P |-> [P EXCEPT ![np] = c.p]]
           : c \in {PartCreateDentry(P[np], new_parent_inode, new_name,
                                     src_dentry.inode_id, src_dentry.type)} })

\* Lines 309-357.
Rename(P, oldpath, newpath) ==
    LET o == SplitParentChild(oldpath)
        n == SplitParentChild(newpath) IN
    IF o.name = <<>> \/ n.name = <<>> THEN [st |-> "InvalidArgument", P |-> P]
    ELSE Only({
      IF lo.st # "OK" THEN [st |-> lo.st, P |-> lo.P]
      ELSE Only({
        IF ln.st # "OK" THEN [st |-> "NotFound", P |-> ln.P]
        ELSE Only({
          IF s.st # "OK" THEN [st |-> "NotFound", P |-> s.P]
          ELSE RenameCreate(s.P, ln.inode_id, n.name, s.dentry)
          : s \in {LookupDentryAt(ln.P, lo.inode_id, o.name)} })
        : ln \in {LookupPath(lo.P, n.parent)} })
      : lo \in {LookupPath(P, o.parent)} })

\* --- State and actions --------------------------------------------------
Op(op, st, pt, key, prior, path) ==
    [op |-> op, st |-> st, pt |-> pt, key |-> key, prior |-> prior, path |-> path]

ConcThreads == 1..2
IdleThread ==
    [pc |-> "idle", path |-> <<>>, mode |-> 0, parent_inode |-> 0, name |-> <<>>,
     new_inode |-> 0, st |-> "none", overlap |-> FALSE, rootAtStart |-> FALSE]

MetaInit ==
    /\ impl = "none"
    /\ parts = [pt \in Partitions |-> NewPartition]
    /\ next_inode_ = 2
    /\ lastOp = Op("none", "OK", 0, <<>>, 0, <<>>)
    /\ made = EmptyMap
    /\ nOps = 0
    /\ thr = [t \in ConcThreads |-> IdleThread]

\* The partitions are constructed from one of the two MetaPartition
\* versions of the repository.
MakePartitions(version) ==
    /\ impl = "none"
    /\ impl' = version
    /\ parts' = [pt \in Partitions |-> NewPartition]
    /\ UNCHANGED <<next_inode_, lastOp, made, nOps, thr>>

\* Direct calls on one partition (as the module tests make them).
CallLookup(pt, inode) ==
    /\ impl # "none"
    /\ nOps < MaxPartOps
    /\ LET r == PartLookup(parts[pt], inode) IN
       /\ parts' = [parts EXCEPT ![pt] = r.p]
       /\ lastOp' = Op("lookup", r.st, pt, <<inode>>, 0, <<>>)
    /\ nOps' = nOps + 1
    /\ UNCHANGED <<impl, next_inode_, made, thr>>

CallLookupDentry(pt, parent, name) ==
    /\ impl # "none"
    /\ nOps < MaxPartOps
    /\ LET r == PartLookupDentry(parts[pt], parent, name) IN
       /\ parts' = [parts EXCEPT ![pt] = r.p]
       /\ lastOp' = Op("lookup_dentry", r.st, pt, <<parent, name>>, 0, <<>>)
    /\ nOps' = nOps + 1
    /\ UNCHANGED <<impl, next_inode_, made, thr>>

CallCreateInode(pt, inode, mode, uid, gid) ==
    /\ impl # "none"
    /\ nOps < MaxPartOps
    /\ LET r == PartCreateInode(pt, parts[pt], inode, mode, uid, gid) IN
       /\ parts' = [parts EXCEPT ![pt] = r.p]
       /\ lastOp' = Op("create_inode", r.st, pt, <<inode>>, 0, <<>>)
    /\ nOps' = nOps + 1
    /\ UNCHANGED <<impl, next_inode_, made, thr>>

CallCreateDentry(pt, parent, name, inode, type) ==
    /\ impl # "none"
    /\ nOps < MaxPartOps
    /\ LET r == PartCreateDentry(parts[pt], parent, name, inode, type)
           k == <<pt, parent, name>> IN
       /\ parts' = [parts EXCEPT ![pt] = r.p]
       /\ lastOp' = Op("create_dentry", r.st, pt, <<parent, name>>,
                       IF k \in DOMAIN made THEN made[k] ELSE 0, <<>>)
       /\ made' = IF r.st = "OK" THEN Put(made, k, inode) ELSE made
    /\ nOps' = nOps + 1
    /\ UNCHANGED <<impl, next_inode_, thr>>

CallDeleteDentry(pt, parent, name) ==
    /\ impl = "plain"
    /\ nOps < MaxPartOps
    /\ LET r == DeleteDentry(parts[pt], parent, name) IN
       /\ parts' = [parts EXCEPT ![pt] = r.p]
       /\ lastOp' = Op("delete_dentry", r.st, pt, <<parent, name>>, 0, <<>>)
    /\ made' = Del(made, <<pt, parent, name>>)
    /\ nOps' = nOps + 1
    /\ UNCHANGED <<impl, next_inode_, thr>>

CallDeleteInode(pt, inode) ==
    /\ impl = "plain"
    /\ nOps < MaxPartOps
    /\ LET r == DeleteInode(parts[pt], inode) IN
       /\ parts' = [parts EXCEPT ![pt] = r.p]
       /\ lastOp' = Op("delete_inode", r.st, pt, <<inode>>, 0, <<>>)
    /\ nOps' = nOps + 1
    /\ UNCHANGED <<impl, next_inode_, made, thr>>

PartNext ==
    \/ \E version \in {"cached", "plain"} : MakePartitions(version)
    \/ \E pt \in Partitions :
        \/ \E inode \in ApiInodes : CallLookup(pt, inode)
        \/ \E parent \in ApiInodes, name \in Names :
               CallLookupDentry(pt, parent, name)
        \/ \E inode \in ApiInodes, mode \in Modes, uid \in Users,
              gid \in Users :
               CallCreateInode(pt, inode, mode, uid, gid)
        \/ \E parent \in ApiInodes, name \in Names, inode \in ApiInodes,
              type \in {kRegular, kDirectory} :
               CallCreateDentry(pt, parent, name, inode, type)
        \/ \E parent \in ApiInodes, name \in Names :
               CallDeleteDentry(pt, parent, name)
        \/ \E inode \in ApiInodes : CallDeleteInode(pt, inode)

\* The root inode (id 1) is never created by the service; whoever sets the
\* partitions up creates it with a direct CreateInode call.
MkRoot ==
    /\ impl # "none"
    /\ nOps < MaxSvcOps
    /\ LET pt == LocatePartition(1)
           r == PartCreateInode(pt, parts[pt], 1, S_IFDIR + 493, 0, 0) IN
       /\ parts' = [parts EXCEPT ![pt] = r.p]
       /\ lastOp' = Op("create_inode", r.st, pt, <<1>>, 0, <<>>)
    /\ nOps' = nOps + 1
    /\ UNCHANGED <<impl, next_inode_, made, thr>>

\* Service operations, each a whole call.
SvcCreate(path, mode, uid, gid) ==
    /\ impl # "none"
    /\ nOps < MaxSvcOps
    /\ next_inode_ <= MaxInode
    /\ LET r == Create(parts, next_inode_, path, mode, uid, gid) IN
       /\ parts' = r.P
       /\ next_inode_' = r.next
       /\ lastOp' = Op("create", r.st, 0, <<>>, 0, <<>>)
    /\ nOps' = nOps + 1
    /\ UNCHANGED <<impl, made, thr>>

SvcMkdir(path, mode, uid, gid) ==
    /\ impl # "none"
    /\ nOps < MaxSvcOps
    /\ next_inode_ <= MaxInode
    /\ LET r == Mkdir(parts, next_inode_, path, mode, uid, gid) IN
       /\ parts' = r.P
       /\ next_inode_' = r.next
       /\ lastOp' = Op("mkdir", r.st, 0, <<>>, 0, <<>>)
    /\ nOps' = nOps + 1
    /\ UNCHANGED <<impl, made, thr>>

SvcUnlink(path) ==
    /\ impl # "none"
    /\ nOps < MaxSvcOps
    /\ LET r == Unlink(parts, path) IN
       /\ parts' = r.P
       /\ lastOp' = Op("unlink", r.st, 0, <<>>, 0, <<>>)
    /\ nOps' = nOps + 1
    /\ UNCHANGED <<impl, next_inode_, made, thr>>

SvcRmdir(path) ==
    /\ impl # "none"
    /\ nOps < MaxSvcOps
    /\ LET r == Rmdir(parts, path) IN
       /\ parts' = r.P
       /\ lastOp' = Op("rmdir", r.st, 0, <<>>, 0, <<>>)
    /\ nOps' = nOps + 1
    /\ UNCHANGED <<impl, next_inode_, made, thr>>

SvcRename(oldpath, newpath) ==
    /\ impl # "none"
    /\ nOps < MaxSvcOps
    /\ LET r == Rename(parts, oldpath, newpath) IN
       /\ parts' = r.P
       /\ lastOp' = Op("rename", r.st, 0, <<>>, 0, <<>>)
    /\ nOps' = nOps + 1
    /\ UNCHANGED <<impl, next_inode_, made, thr>>

MetaNext ==
    \/ \E version \in {"cached", "plain"} : MakePartitions(version)
    \/ MkRoot
    \/ \E path \in Paths, mode \in Modes, uid \in Users, gid \in Users :
           SvcCreate(path, mode, uid, gid)
    \/ \E path \in Paths, mode \in Modes, uid \in Users, gid \in Users :
           SvcMkdir(path, mode, uid, gid)
    \/ \E path \in Paths : SvcUnlink(path)
    \/ \E path \in Paths : SvcRmdir(path)
    \/ \E oldpath \in Paths, newpath \in Paths : SvcRename(oldpath, newpath)

\* Two threads calling Create at the same time.  MetaPartition and
\* BTreeIndex take no lock; the steps are the calls Create makes, with
\* CreateDentry split at its transaction (the KV store and each map access
\* are taken to be atomic).
ConcPaths == {path \in Paths : WellFormed(path) /\ Len(path) \in 2..3}
RootStored == EncodeInodeKey(1) \in DOMAIN parts[LocatePartition(1)].db

ConcRunning(t) == thr[t].pc \notin {"idle", "done"}

ConcStart(t, path, mode) ==
    /\ impl # "none"
    /\ thr[t].pc = "idle"
    /\ thr' = [u \in ConcThreads |->
                 IF u = t
                 THEN [thr[t] EXCEPT !.pc = "resolve", !.path = path, !.mode = mode,
                          !.rootAtStart = RootStored,
                          !.overlap = \E v \in ConcThreads \ {t} : ConcRunning(v)]
                 ELSE [thr[u] EXCEPT !.overlap = @ \/ ConcRunning(u)]]
    /\ UNCHANGED <<impl, parts, next_inode_, lastOp, made, nOps>>

ConcFinish(t, st) == [thr EXCEPT ![t] = [@ EXCEPT !.pc = "done", !.st = st]]

ConcResolve(t) ==
    /\ thr[t].pc = "resolve"
    /\ LET r == CreateResolve(parts, thr[t].path) IN
       /\ parts' = r.P
       /\ thr' = IF r.st # "OK" THEN ConcFinish(t, r.st)
                 ELSE [thr EXCEPT ![t] =
                          [@ EXCEPT !.pc = "alloc",
                                    !.parent_inode = r.parent_inode,
                                    !.name = r.name]]
    /\ UNCHANGED <<impl, next_inode_, lastOp, made, nOps>>

\* GenerateInodeID, under next_inode_mutex_.
ConcAlloc(t) ==
    /\ thr[t].pc = "alloc"
    /\ next_inode_ <= MaxInode
    /\ thr' = [thr EXCEPT ![t] = [@ EXCEPT !.pc = "inode", !.new_inode = next_inode_]]
    /\ next_inode_' = next_inode_ + 1
    /\ UNCHANGED <<impl, parts, lastOp, made, nOps>>

ConcCreateInode(t) ==
    /\ thr[t].pc = "inode"
    /\ LET tp == LocatePartition(thr[t].new_inode)
           r == PartCreateInode(tp, parts[tp], thr[t].new_inode, thr[t].mode, 0, 0) IN
       /\ parts' = [parts EXCEPT ![tp] = r.p]
       /\ thr' = IF r.st # "OK" THEN ConcFinish(t, r.st)
                 ELSE [thr EXCEPT ![t] = [@ EXCEPT !.pc = "dentry_check"]]
    /\ UNCHANGED <<impl, next_inode_, lastOp, made, nOps>>

ConcDentryCheck(t) ==
    /\ thr[t].pc = "dentry_check"
    /\ LET pt == LocatePartition(thr[t].parent_inode)
           r == IF impl = "cached"
                THEN CreateDentryCheck(parts[pt], thr[t].parent_inode, thr[t].name)
                ELSE [st |-> "OK", p |-> parts[pt]] IN
       /\ parts' = [parts EXCEPT ![pt] = r.p]
       /\ thr' = IF r.st # "OK" THEN ConcFinish(t, r.st)
                 ELSE [thr EXCEPT ![t] = [@ EXCEPT !.pc = "dentry_commit"]]
    /\ UNCHANGED <<impl, next_inode_, lastOp, made, nOps>>

ConcDentryCommit(t) ==
    /\ thr[t].pc = "dentry_commit"
    /\ LET pt == LocatePartition(thr[t].parent_inode)
           p1 == IF impl = "cached"
                 THEN CreateDentryCommit(parts[pt], thr[t].parent_inode,
                          thr[t].name, thr[t].new_inode, FileTypeOf(thr[t].mode))
                 ELSE PlainCreateDentry(parts[pt], thr[t].parent_inode,
                          thr[t].name, thr[t].new_inode, FileTypeOf(thr[t].mode)).p IN
       /\ parts' = [parts EXCEPT ![pt] = p1]
       /\ thr' = ConcFinish(t, "OK")
    /\ UNCHANGED <<impl, next_inode_, lastOp, made, nOps>>

ConcNext ==
    \/ \E version \in {"cached", "plain"} : MakePartitions(version)
    \/ MkRoot
    \/ \E t \in ConcThreads :
        \/ \E path \in ConcPaths, mode \in Modes : ConcStart(t, path, mode)
        \/ ConcResolve(t)
        \/ ConcAlloc(t)
        \/ ConcCreateInode(t)
        \/ ConcDentryCheck(t)
        \/ ConcDentryCommit(t)

(***************************************************************************)
(* RocksDBTransaction   (src/metadata/rocksdb_store.cpp): a write batch    *)
(* over the store, applied by Commit.  rocksdb::DB::Write applies a batch   *)
(* wholly or, when it returns an error, not at all.                        *)
(***************************************************************************)
NumTxns == 2
MaxBatch == 2
MaxStaged == 3
MaxTxnOps == 6

TxnIds == 1..NumTxns
TxnInodes == 1..2

VARIABLES
    kvdb,       \* the rocksdb::DB the transactions write to
    txn,        \* txn[t] = [live, batch_, committed_] of transaction object t
    nStaged,    \* number of CreateDentry/CreateInode calls made so far
    pending,    \* history: puts staged and not covered by a successful Commit;
                \* gone = the transaction was rolled back or destroyed since
    txnLast,    \* history: the last transaction call and its Status
    nTxnOps     \* history: number of transaction calls made

txnVars == <<kvdb, txn, nStaged, pending, txnLast, nTxnOps>>

NoTransaction == [live |-> FALSE, batch_ |-> <<>>, committed_ |-> FALSE]

\* RocksDBStore::BeginTransaction / RocksDBTransaction::RocksDBTransaction
BeginTransaction == [live |-> TRUE, batch_ |-> <<>>, committed_ |-> FALSE]

\* batch_.Put(dentry_key_, dentry_value_)
TransactionCreateDentry(x, parent, name, inode, type) ==
    [x EXCEPT !.batch_ = Append(@, [key |-> EncodeDentryKey(parent, name),
                                    value |-> EncodeDentryValue(
                                                  Dentry(name, inode, type))])]

\* batch_.Put(inode_key_, inode_value_)
TransactionCreateInode(x, inode, mode, uid, gid) ==
    [x EXCEPT !.batch_ = Append(@, [key |-> EncodeInodeKey(inode),
                                    value |-> EncodeInodeValue(
                                        InodeAttr(inode, mode, uid, gid, 0, 1))])]

\* rocksdb::DB::Write: the puts of the batch in order.
RECURSIVE WriteBatch(_, _)
WriteBatch(db, batch) ==
    IF batch = <<>> THEN db
    ELSE WriteBatch(Put(db, Head(batch).key, Head(batch).value), Tail(batch))

\* RocksDBTransaction::Commit; written = FALSE is a failed db_->Write.
TransactionCommit(db, x, written) ==
    IF ~written
    THEN [st |-> "IO", db |-> db, x |-> x]
    ELSE [st |-> "OK", db |-> WriteBatch(db, x.batch_),
          x |-> [x EXCEPT !.committed_ = TRUE]]

TransactionRollbackMutKeepsBatch(x) == [x EXCEPT !.committed_ = TRUE]

\* RocksDBTransaction::Rollback
TransactionRollback(x) == [x EXCEPT !.batch_ = <<>>, !.committed_ = TRUE]

\* RocksDBTransaction::~RocksDBTransaction
TransactionDestroy(x) ==
    IF ~x.committed_ THEN [TransactionRollback(x) EXCEPT !.live = FALSE]
    ELSE [x EXCEPT !.live = FALSE]

TxnOp(op, t, st) == [op |-> op, t |-> t, st |-> st]

TxnInit ==
    /\ kvdb = EmptyMap
    /\ txn = [t \in TxnIds |-> NoTransaction]
    /\ nStaged = 0
    /\ pending = {}
    /\ txnLast = TxnOp("none", 0, "OK")
    /\ nTxnOps = 0

\* history: the pending puts of transaction t are discarded.
Discard(t) ==
    {e \in pending : e.t # t} \cup
    {[e EXCEPT !.gone = TRUE] : e \in {e \in pending : e.t = t}}

TxBegin(t) ==
    /\ nTxnOps < MaxTxnOps
    /\ ~txn[t].live
    /\ txn' = [txn EXCEPT ![t] = BeginTransaction]
    /\ txnLast' = TxnOp("begin", t, "OK")
    /\ nTxnOps' = nTxnOps + 1
    /\ UNCHANGED <<kvdb, nStaged, pending>>

\* Every staged put carries its call number (as the dentry's inode id, as
\* the inode's gid), so that two puts never have equal key and value.
TxCreateDentry(t, name, type) ==
    /\ nTxnOps < MaxTxnOps /\ nStaged < MaxStaged
    /\ txn[t].live /\ Len(txn[t].batch_) < MaxBatch
    /\ txn' = [txn EXCEPT ![t] =
                  TransactionCreateDentry(@, 1, name, nStaged + 1, type)]
    /\ pending' = pending \cup {[t |-> t, gone |-> FALSE,
                               put |-> txn'[t].batch_[Len(txn'[t].batch_)]]}
    /\ nStaged' = nStaged + 1
    /\ txnLast' = TxnOp("create_dentry", t, "OK")
    /\ nTxnOps' = nTxnOps + 1
    /\ UNCHANGED kvdb

TxCreateInode(t, inode, mode) ==
    /\ nTxnOps < MaxTxnOps /\ nStaged < MaxStaged
    /\ txn[t].live /\ Len(txn[t].batch_) < MaxBatch
    /\ txn' = [txn EXCEPT ![t] =
                  TransactionCreateInode(@, inode, mode, 0, nStaged + 1)]
    /\ pending' = pending \cup {[t |-> t, gone |-> FALSE,
                               put |-> txn'[t].batch_[Len(txn'[t].batch_)]]}
    /\ nStaged' = nStaged + 1
    /\ txnLast' = TxnOp("create_inode", t, "OK")
    /\ nTxnOps' = nTxnOps + 1
    /\ UNCHANGED kvdb

TxCommit(t, written) ==
    /\ nTxnOps < MaxTxnOps
    /\ txn[t].live
    /\ LET r == TransactionCommit(kvdb, txn[t], written) IN
       /\ kvdb' = r.db
       /\ txn' = [txn EXCEPT ![t] = r.x]
       /\ pending' = IF r.st = "OK"
                     THEN {e \in pending : e.t # t \/ e.gone}
                     ELSE pending
       /\ txnLast' = TxnOp("commit", t, r.st)
    /\ nTxnOps' = nTxnOps + 1
    /\ UNCHANGED nStaged

TxRollback(t) ==
    /\ nTxnOps < MaxTxnOps
    /\ txn[t].live
    /\ txn' = [txn EXCEPT ![t] = TransactionRollback(@)]
    /\ pending' = Discard(t)
    /\ txnLast' = TxnOp("rollback", t, "OK")
    /\ nTxnOps' = nTxnOps + 1
    /\ UNCHANGED <<kvdb, nStaged>>

TxDestroy(t) ==
    /\ nTxnOps < MaxTxnOps
    /\ txn[t].live
    /\ txn' = [txn EXCEPT ![t] = TransactionDestroy(@)]
    /\ pending' = Discard(t)
    /\ txnLast' = TxnOp("destroy", t, "OK")
    /\ nTxnOps' = nTxnOps + 1
    /\ UNCHANGED <<kvdb, nStaged>>

TxnNext ==
    \/ \E t \in TxnIds : TxBegin(t)
    \/ \E t \in TxnIds, name \in Names, type \in {kRegular, kDirectory} :
           TxCreateDentry(t, name, type)
    \/ \E t \in TxnIds, inode \in TxnInodes, mode \in {S_IFREG + 420, S_IFDIR + 493} :
           TxCreateInode(t, inode, mode)
    \/ \E t \in TxnIds, written \in BOOLEAN : TxCommit(t, written)
    \/ \E t \in TxnIds : TxRollback(t)
    \/ \E t \in TxnIds : TxDestroy(t)

(***************************************************************************)
(* MetadataServiceImpl: GetAttr, SetAttr, UpdateSize                       *)
(* (src/metadata/metadata_service_impl.cpp)                                *)
(***************************************************************************)
MaxSize == 1
MaxAttrOps == 3
NumMaskBits == 6

Sizes == 0..MaxSize
Masks == 0..(2 ^ NumMaskBits - 1)
\* The InodeAttr records handed to set_attr: no field equals the value that
\* Create or a set_attr of the other record gave it.
SetAttrs == {InodeAttr(0, 420, NumUsers, NumUsers, MaxSize, 1),
             InodeAttr(0, S_IFDIR + 448, NumUsers + 1, NumUsers + 1, MaxSize + 1, 1)}
AttrPaths == {<<"/">>, <<"/", "a">>}

ATTR_MODE == 1
ATTR_UID == 2
ATTR_GID == 4
ATTR_SIZE == 8
\* to_set & bit, for a bit that is a power of two
MaskHas(to_set, bit) == (to_set \div bit) % 2 = 1

\* MetadataServiceImpl::GetAttr: [st, P, attr]
GetAttr(P, path) ==
    Only({ IF l.st # "OK" THEN [st |-> l.st, P |-> l.P, attr |-> NoAttr]
           ELSE Only({ [st |-> a.st,
                        P |-> [l.P EXCEPT ![LocatePartition(l.inode_id)] = a.p],
                        attr |-> a.attr]
                       : a \in {PartLookup(l.P[LocatePartition(l.inode_id)],
                                           l.inode_id)} })
           : l \in {LookupPath(P, path)} })

\* Lines 201-212: the fields of attr whose bit is set replace those of
\* current (mtime is not part of the model's inode record).
MergeAttr(current, attr, to_set) ==
    [current EXCEPT
        !.mode = IF MaskHas(to_set, ATTR_MODE) THEN attr.mode ELSE @,
        !.uid = IF MaskHas(to_set, ATTR_UID) THEN attr.uid ELSE @,
        !.gid = IF MaskHas(to_set, ATTR_GID) THEN attr.gid ELSE @,
        !.size = IF MaskHas(to_set, ATTR_SIZE) THEN attr.size ELSE @]

\* MetadataServiceImpl::SetAttr: [st, P].  The merged record is handed to
\* partition->CreateInode, which takes inode id, mode, uid and gid.
SetAttr(P, path, attr, to_set) ==
    Only({ IF g.st # "OK" THEN [st |-> g.st, P |-> g.P]
           ELSE Only({ Only({ [st |-> r.st, P |-> [g.P EXCEPT ![pt] = r.p]]
                              : r \in {PartCreateInode(pt, g.P[pt], current.inode_id,
                                           current.mode, current.uid, current.gid)} })
                       : current \in {MergeAttr(g.attr, attr, to_set)},
                         pt \in {LocatePartition(g.attr.inode_id)} })
           : g \in {GetAttr(P, path)} })

\* MetadataServiceImpl::UpdateSize: [st, P]
UpdateSize(P, inode, new_size) ==
    LET pt == LocatePartition(inode) IN
    Only({ IF l.st # "OK" THEN [st |-> l.st, P |-> [P EXCEPT ![pt] = l.p]]
           ELSE Only({ Only({ [st |-> r.st, P |-> [P EXCEPT ![pt] = r.p]]
                              : r \in {PartCreateInode(pt, l.p, attr.inode_id,
                                           attr.mode, attr.uid, attr.gid)} })
                       : attr \in {[l.attr EXCEPT !.size = new_size]} })
           : l \in {PartLookup(P[pt], inode)} })

SvcGetAttr(path) ==
    /\ impl # "none"
    /\ nOps < MaxAttrOps
    /\ LET r == GetAttr(parts, path) IN
       /\ parts' = r.P
       /\ lastOp' = Op("get_attr", r.st, 0, <<path, r.attr>>, 0, <<>>)
    /\ nOps' = nOps + 1
    /\ UNCHANGED <<impl, next_inode_, made, thr>>

\* history: lastOp.key = <<path, attr, to_set, the inode's record before>>
SvcSetAttr(path, attr, to_set) ==
    /\ impl # "none"
    /\ nOps < MaxAttrOps
    /\ LET r == SetAttr(parts, path, attr, to_set) IN
       /\ parts' = r.P
       /\ lastOp' = Op("set_attr", r.st, 0,
                       <<path, attr, to_set, GetAttr(parts, path).attr>>, 0, <<>>)
    /\ nOps' = nOps + 1
    /\ UNCHANGED <<impl, next_inode_, made, thr>>

\* history: lastOp.key = <<inode, new_size>>
SvcUpdateSize(inode, new_size) ==
    /\ impl # "none"
    /\ nOps < MaxAttrOps
    /\ LET r == UpdateSize(parts, inode, new_size) IN
       /\ parts' = r.P
       /\ lastOp' = Op("update_size", r.st, 0, <<inode, new_size>>, 0, <<>>)
    /\ nOps' = nOps + 1
    /\ UNCHANGED <<impl, next_inode_, made, thr>>

AttrNext ==
    \/ \E version \in {"cached", "plain"} : MakePartitions(version)
    \/ MkRoot
    \/ \E path \in AttrPaths, mode \in Modes, uid \in Users, gid \in Users :
           SvcCreate(path, mode, uid, gid)
    \/ \E path \in AttrPaths : SvcGetAttr(path)
    \/ \E path \in AttrPaths, attr \in SetAttrs, to_set \in Masks :
           SvcSetAttr(path, attr, to_set)
    \/ \E inode \in ApiInodes, new_size \in Sizes : SvcUpdateSize(inode, new_size)

(***************************************************************************)
(* S3 gateway: MetadataBackend (RocksDBBackend), S3MetadataStore           *)
(* (include/nebulastore/protocol/s3_metadata.h) and S3Handler              *)
(* (include/nebulastore/protocol/s3_handler.h).  Strings are sequences of  *)
(* characters; the bucket names of S3Buckets hold no '/'.  The backend is  *)
(* taken to be reliable, and the counters stay far below 2^64.             *)
(***************************************************************************)
MaxS3Ops == 5
MaxBody == 2
MaxKeysArg == 2

S3Buckets == {<<"a">>, <<"b">>}
ObjKeys == {<<"a">>, <<"a", "a">>, <<"a", "b">>, <<"b">>}
Prefixes == {<<>>, <<"a">>, <<"b">>}
Markers == {<<>>, <<"a">>, <<"a", "a">>}
BodySizes == 1..MaxBody

VARIABLES
    s3db,       \* the backend's rocksdb::DB: key string -> value
    s3Last,     \* history: the last request and its response
    nS3Ops      \* history: number of requests handled

s3Vars == <<s3db, s3Last, nS3Ops>>

\* --- std::string --------------------------------------------------------
CharCode(c) ==
    CASE c = "/" -> 47 [] c = ":" -> 58 [] c = "B" -> 66 [] c = "L" -> 76
      [] c = "O" -> 79 [] c = "a" -> 97 [] c = "b" -> 98

\* s < t, byte-wise
StrLess(s, t) ==
    \E i \in 1..Len(t) :
        /\ \A j \in 1..(i - 1) : j <= Len(s) /\ s[j] = t[j]
        /\ (i > Len(s) \/ CharCode(s[i]) < CharCode(t[i]))

\* s.find(p) == 0, key().starts_with(p)
StartsWith(s, p) == Len(p) <= Len(s) /\ SubSeq(s, 1, Len(p)) = p

\* The strings of a set in ascending order (the iterator's order).
RECURSIVE Ascending(_)
Ascending(S) ==
    IF S = {} THEN <<>>
    ELSE LET m == CHOOSE x \in S : \A y \in S \ {x} : StrLess(x, y) IN
         <<m>> \o Ascending(S \ {m})

\* --- RocksDBBackend -----------------------------------------------------
BackendPut(db, key, value) == Put(db, key, value)
BackendGet(db, key) ==
    IF key \in DOMAIN db THEN [ok |-> TRUE, value |-> db[key]]
    ELSE [ok |-> FALSE, value |-> <<>>]
BackendDelete(db, key) == Del(db, key)
BackendExists(db, key) == key \in DOMAIN db

RECURSIVE BatchPut(_, _)
BatchPut(db, kvs) ==
    IF kvs = <<>> THEN db
    ELSE BatchPut(Put(db, kvs[1][1], kvs[1][2]), Tail(kvs))

\* Scan: the keys with the prefix in order; the loop appends and then
\* tests size >= limit, so a limit below 1 still yields one entry.
Scan(db, prefix, limit) ==
    LET all == Ascending({k \in DOMAIN db : StartsWith(k, prefix)})
        n == IF limit < 1 THEN 1 ELSE limit IN
    SubSeq(all, 1, IF Len(all) < n THEN Len(all) ELSE n)

\* --- BucketMeta, ObjectMeta ---------------------------------------------
BucketMeta(name, object_count, total_size) ==
    [name |-> name, object_count |-> object_count, total_size |-> total_size]
ObjectMeta(bucket, key, size) == [bucket |-> bucket, key |-> key, size |-> size]

\* Encode: version 1, then the fields in order.
BucketEncode(meta) == <<1, meta.name, meta.object_count, meta.total_size>>
BucketDecode(data) ==
    IF Len(data) < 4 \/ data[1] > 1 THEN [ok |-> FALSE, meta |-> BucketMeta(<<>>, 0, 0)]
    ELSE [ok |-> TRUE, meta |-> BucketMeta(data[2], data[3], data[4])]
ObjectEncode(meta) == <<1, meta.bucket, meta.key, meta.size>>
ObjectDecode(data) ==
    IF Len(data) < 4 \/ data[1] > 1 THEN [ok |-> FALSE, meta |-> ObjectMeta(<<>>, <<>>, 0)]
    ELSE [ok |-> TRUE, meta |-> ObjectMeta(data[2], data[3], data[4])]

\* --- S3MetadataStore ----------------------------------------------------
BucketKey(name) == <<"B", ":">> \o name
BucketListKey(name) == <<"B", "L", ":">> \o name
ObjectKey(bucket, key) == <<"O", ":">> \o bucket \o <<"/">> \o key
ObjectListKey(bucket, key) == <<"O", "L", ":">> \o bucket \o <<"/">> \o key

PutBucket(db, meta) ==
    BatchPut(db, << <<BucketKey(meta.name), BucketEncode(meta)>>,
                    <<BucketListKey(meta.name), <<>> >> >>)

GetBucket(db, name) ==
    LET g == BackendGet(db, BucketKey(name)) IN
    IF ~g.ok THEN [ok |-> FALSE, meta |-> BucketMeta(<<>>, 0, 0)]
    ELSE BucketDecode(g.value)

DeleteBucket(db, name) ==
    BackendDelete(BackendDelete(db, BucketKey(name)), BucketListKey(name))

BucketExists(db, name) == BackendExists(db, BucketKey(name))

PutObject(db, meta) ==
    BatchPut(db, << <<ObjectKey(meta.bucket, meta.key), ObjectEncode(meta)>>,
                    <<ObjectListKey(meta.bucket, meta.key), <<>> >> >>)

GetObject(db, bucket, key) ==
    LET g == BackendGet(db, ObjectKey(bucket, key)) IN
    IF ~g.ok THEN [ok |-> FALSE, meta |-> ObjectMeta(<<>>, <<>>, 0)]
    ELSE ObjectDecode(g.value)

DeleteObject(db, bucket, key) ==
    BackendDelete(BackendDelete(db, ObjectKey(bucket, key)),
                  ObjectListKey(bucket, key))

ObjectExists(db, bucket, key) == BackendExists(db, ObjectKey(bucket, key))

\* The loop of ListObjects over the scanned keys kvs[i..].
RECURSIVE ListObjectsLoop(_, _, _, _, _, _, _, _)
ListObjectsLoop(db, bucket, scan_prefix, kvs, i, prefix, marker, max_keys) ==
    IF i > Len(kvs) THEN <<>>
    ELSE LET obj_key == SubSeq(kvs[i], Len(scan_prefix) + 1, Len(kvs[i]))
             rest(k) == ListObjectsLoop(db, bucket, scan_prefix, kvs, i + 1,
                                        prefix, marker, k)
         IN
         IF marker # <<>> /\ (obj_key = marker \/ StrLess(obj_key, marker))
         THEN rest(max_keys)
         ELSE IF prefix # <<>> /\ ~StartsWith(obj_key, prefix)
         THEN rest(max_keys)
         ELSE LET g == GetObject(db, bucket, obj_key) IN
              IF ~g.ok THEN rest(max_keys)
              ELSE IF 1 >= max_keys THEN <<g.meta>>
              ELSE <<g.meta>> \o rest(max_keys - 1)

ListObjects(db, bucket, prefix, marker, max_keys) ==
    LET scan_prefix == <<"O", "L", ":">> \o bucket \o <<"/">> IN
    ListObjectsLoop(db, bucket, scan_prefix, Scan(db, scan_prefix, max_keys * 2),
                    1, prefix, marker, max_keys)

UpdateBucketStatsMutCountIgnored(db, bucket, size_delta, count_delta) ==
    LET g == GetBucket(db, bucket) IN
    IF ~g.ok THEN db
    ELSE PutBucket(db, [g.meta EXCEPT !.total_size = @ + size_delta])

UpdateBucketStats(db, bucket, size_delta, count_delta) ==
    LET g == GetBucket(db, bucket) IN
    IF ~g.ok THEN db
    ELSE PutBucket(db, [g.meta EXCEPT !.total_size = @ + size_delta,
                                      !.object_count = @ + count_delta])

\* --- S3Handler ----------------------------------------------------------
S3Req(op, bucket, key) == [op |-> op, bucket |-> bucket, key |-> key]
NoList == [prefix |-> <<>>, marker |-> <<>>, max_keys |-> 0,
           objects |-> <<>>, is_truncated |-> FALSE]

S3Init ==
    /\ s3db = EmptyMap
    /\ s3Last = [req |-> S3Req("none", <<>>, <<>>), status_code |-> 200,
                 before |-> EmptyMap, list |-> NoList]
    /\ nS3Ops = 0

\* Every handler: the request, the response's status code, the store as it
\* was when the request arrived, and the list result if any.
S3Done(req, status_code, db, list) ==
    /\ s3db' = db
    /\ s3Last' = [req |-> req, status_code |-> status_code,
                  before |-> s3db, list |-> list]
    /\ nS3Ops' = nS3Ops + 1

HandleCreateBucket(bucket) ==
    /\ nS3Ops < MaxS3Ops
    /\ IF BucketExists(s3db, bucket)
       THEN S3Done(S3Req("create_bucket", bucket, <<>>), 409, s3db, NoList)
       ELSE S3Done(S3Req("create_bucket", bucket, <<>>), 200,
                   PutBucket(s3db, BucketMeta(bucket, 0, 0)), NoList)

BucketIsEmptyMutNotChecked(db, bucket) == TRUE

\* Lines 147-148: ListObjects(bucket, "", "", 1) is empty
BucketIsEmpty(db, bucket) == ListObjects(db, bucket, <<>>, <<>>, 1) = <<>>

HandleDeleteBucket(bucket) ==
    /\ nS3Ops < MaxS3Ops
    /\ IF ~BucketExists(s3db, bucket)
       THEN S3Done(S3Req("delete_bucket", bucket, <<>>), 404, s3db, NoList)
       ELSE IF ~BucketIsEmpty(s3db, bucket)
       THEN S3Done(S3Req("delete_bucket", bucket, <<>>), 409, s3db, NoList)
       ELSE S3Done(S3Req("delete_bucket", bucket, <<>>), 204,
                   DeleteBucket(s3db, bucket), NoList)

HandleListObjects(bucket, prefix, marker, max_keys) ==
    /\ nS3Ops < MaxS3Ops
    /\ IF ~BucketExists(s3db, bucket)
       THEN S3Done(S3Req("list_objects", bucket, <<>>), 404, s3db, NoList)
       ELSE LET objects == ListObjects(s3db, bucket, prefix, marker, max_keys) IN
            S3Done(S3Req("list_objects", bucket, <<>>), 200, s3db,
                   [prefix |-> prefix, marker |-> marker, max_keys |-> max_keys,
                    objects |-> [i \in 1..Len(objects) |-> objects[i].key],
                    is_truncated |-> Len(objects) >= max_keys])

\* body_size is req.body.size()
HandlePutObject(bucket, key, body_size) ==
    /\ nS3Ops < MaxS3Ops
    /\ IF ~BucketExists(s3db, bucket)
       THEN S3Done(S3Req("put_object", bucket, key), 404, s3db, NoList)
       ELSE LET is_update == ObjectExists(s3db, bucket, key)
                old_meta == GetObject(s3db, bucket, key).meta
                meta == ObjectMeta(bucket, key, body_size)
                size_delta == IF is_update THEN meta.size - old_meta.size
                              ELSE meta.size
                count_delta == IF is_update THEN 0 ELSE 1 IN
            S3Done(S3Req("put_object", bucket, key), 200,
                   UpdateBucketStats(PutObject(s3db, meta), bucket,
                                     size_delta, count_delta), NoList)

HandleDeleteObject(bucket, key) ==
    /\ nS3Ops < MaxS3Ops
    /\ LET g == GetObject(s3db, bucket, key) IN
       IF g.ok
       THEN S3Done(S3Req("delete_object", bucket, key), 204,
                   UpdateBucketStats(DeleteObject(s3db, bucket, key), bucket,
                                     0 - g.meta.size, 0 - 1), NoList)
       ELSE S3Done(S3Req("delete_object", bucket, key), 204, s3db, NoList)

S3Next ==
    \/ \E bucket \in S3Buckets : HandleCreateBucket(bucket)
    \/ \E bucket \in S3Buckets : HandleDeleteBucket(bucket)
    \/ \E bucket \in S3Buckets, prefix \in Prefixes, marker \in Markers,
          max_keys \in 0..MaxKeysArg :
           HandleListObjects(bucket, prefix, marker, max_keys)
    \/ \E bucket \in S3Buckets, key \in ObjKeys, body_size \in BodySizes :
           HandlePutObject(bucket, key, body_size)
    \/ \E bucket \in S3Buckets, key \in ObjKeys : HandleDeleteObject(bucket, key)

(***************************************************************************)
(* MetadataServiceImpl::Rename, with the paths and the source's inode kept *)
(* in the history.                                                         *)
(***************************************************************************)
RenamePaths == {<<"/", "a">>, <<"/", "a", "a">>, <<"/", "a", "/", "a">>}

\* history: lastOp.key = <<oldpath, newpath, the inode oldpath resolved to>>
SvcRenameObserved(oldpath, newpath) ==
    /\ impl # "none"
    /\ nOps < MaxSvcOps
    /\ LET r == Rename(parts, oldpath, newpath) IN
       /\ parts' = r.P
       /\ lastOp' = Op("rename", r.st, 0,
                       <<oldpath, newpath, LookupPath(parts, oldpath).inode_id>>,
                       0, <<>>)
    /\ nOps' = nOps + 1
    /\ UNCHANGED <<impl, next_inode_, made, thr>>

RenameNext ==
    \/ \E version \in {"cached", "plain"} : MakePartitions(version)
    \/ MkRoot
    \/ \E path \in RenamePaths, mode \in Modes, uid \in Users, gid \in Users :
           SvcCreate(path, mode, uid, gid)
    \/ \E path \in RenamePaths, mode \in Modes, uid \in Users, gid \in Users :
           SvcMkdir(path, mode, uid, gid)
    \/ \E oldpath \in RenamePaths, newpath \in RenamePaths :
           SvcRenameObserved(oldpath, newpath)

(***************************************************************************)
(* NamespaceService::Read / Write (src/namespace/service.cpp) over         *)
(* MetadataServiceImpl::GetLayout / AddSlice and LocalBackend              *)
(* (src/storage/local_backend.cpp).  Paths are POSIX paths, which          *)
(* PathConverter::Parse hands on as they are.                              *)
(***************************************************************************)
MaxNsOps == 5
MaxNsOff == 2
MaxData == 2
NumByteValues == 2

NsPaths == {<<"/", "a">>}
NsOffsets == 0..MaxNsOff
\* Written bytes are non-zero, to tell them from the zeros of a hole.
ByteValues == 1..NumByteValues
NsData == UNION {[1..n -> ByteValues] : n \in 1..MaxData}
ReadSizes == 1..(MaxNsOff + MaxData)

VARIABLES
    chunks,     \* LocalBackend: storage key -> the bytes of the file
    nsWrites,   \* history: the writes whose chunk was stored, in order
    nsLast      \* history: the last Read or Write call and its result

nsVars == <<chunks, nsWrites, nsLast>>

SliceInfo(slice_id, offset, size, storage_key) ==
    [slice_id |-> slice_id, offset |-> offset, size |-> size,
     storage_key |-> storage_key]

\* MetadataServiceImpl::GetLayout: the layout it returns has no slice.
GetLayout(inode) ==
    [st |-> "OK", layout |-> [inode_id |-> inode, slices |-> <<>>]]

\* MetadataServiceImpl::AddSlice: the slice is not stored.
AddSlice(inode, slice) == "OK"

\* LocalBackend::Put
LocalPut(store, key, data) == Put(store, key, data)

\* LocalBackend::GetRange reads the range into a local buffer and returns;
\* the caller's ByteBuffer keeps what it held.
LocalGetRange(store, key, offset, size, data) ==
    IF key \notin DOMAIN store THEN [st |-> "NotFound", data |-> data]
    ELSE [st |-> "OK", data |-> data]

Min(a, b) == IF a < b THEN a ELSE b

\* The loop of Read over layout.slices[i..]: the first slice that holds
\* offset is read, from offset to the end of the slice at most.
RECURSIVE ReadSlices(_, _, _, _, _, _)
ReadSlices(store, slices, i, offset, size, data) ==
    IF i > Len(slices) THEN [st |-> "NotFound", data |-> data]
    ELSE IF offset >= slices[i].offset /\ offset < slices[i].offset + slices[i].size
    THEN LocalGetRange(store, slices[i].storage_key, offset - slices[i].offset,
                       Min(size, slices[i].size - (offset - slices[i].offset)), data)
    ELSE ReadSlices(store, slices, i + 1, offset, size, data)

\* NamespaceService::Read: [st, P, data]; data starts as an empty buffer.
Read(P, store, path, offset, size) ==
    Only({ IF l.st # "OK" THEN [st |-> l.st, P |-> l.P, data |-> <<>>]
           ELSE Only({ IF g.st # "OK" THEN [st |-> g.st, P |-> l.P, data |-> <<>>]
                       ELSE Only({ [st |-> r.st, P |-> l.P, data |-> r.data]
                                   : r \in {ReadSlices(store, g.layout.slices, 1,
                                                       offset, size, <<>>)} })
                       : g \in {GetLayout(l.inode_id)} })
           : l \in {LookupPath(P, path)} })

\* The storage key of Write: "chunks/" + inode_id + "/" + offset.
StorageKey(inode_id, offset) == <<"chunks", inode_id, offset>>

\* NamespaceService::Write: [st, P, store, stored]; stored = the chunk was put.
Write(P, store, path, data, offset) ==
    Only({ IF l.st # "OK"
           THEN [st |-> l.st, P |-> l.P, store |-> store, stored |-> FALSE]
           ELSE Only({
                  IF AddSlice(l.inode_id, SliceInfo(0, offset, Len(data), storage_key)) # "OK"
                  THEN [st |-> "IO", P |-> l.P, store |-> LocalPut(store, storage_key, data),
                        stored |-> TRUE]
                  ELSE Only({ [st |-> u.st, P |-> u.P,
                               store |-> LocalPut(store, storage_key, data),
                               stored |-> TRUE]
                              : u \in {UpdateSize(l.P, l.inode_id, offset + Len(data))} })
                  : storage_key \in {StorageKey(l.inode_id, offset)} })
           : l \in {LookupPath(P, path)} })

NsInit ==
    /\ chunks = EmptyMap
    /\ nsWrites = <<>>
    /\ nsLast = [op |-> "none", st |-> "OK", inode |-> 0, offset |-> 0,
                 size |-> 0, data |-> <<>>]

NsWrite(path, data, offset) ==
    /\ impl # "none"
    /\ nOps < MaxNsOps
    /\ LET r == Write(parts, chunks, path, data, offset)
           inode == LookupPath(parts, path).inode_id IN
       /\ parts' = r.P
       /\ chunks' = r.store
       /\ nsWrites' = IF r.stored
                      THEN Append(nsWrites, [inode |-> inode, offset |-> offset,
                                             data |-> data, st |-> r.st,
                                             storage_key |-> StorageKey(inode, offset)])
                      ELSE nsWrites
       /\ nsLast' = [op |-> "write", st |-> r.st, inode |-> inode,
                     offset |-> offset, size |-> Len(data), data |-> data]
    /\ nOps' = nOps + 1
    /\ UNCHANGED <<impl, next_inode_, lastOp, made, thr>>

\* history: nsLast.inode is the inode of the file, 0 when the path does not
\* resolve.
NsRead(path, offset, size) ==
    /\ impl # "none"
    /\ nOps < MaxNsOps
    /\ LET r == Read(parts, chunks, path, offset, size) IN
       /\ parts' = r.P
       /\ nsLast' = [op |-> "read", st |-> r.st,
                     inode |-> LookupPath(parts, path).inode_id,
                     offset |-> offset, size |-> size, data |-> r.data]
    /\ nOps' = nOps + 1
    /\ UNCHANGED <<impl, next_inode_, lastOp, made, thr, chunks, nsWrites>>

NsNext ==
    \/ /\ \/ \E version \in {"cached", "plain"} : MakePartitions(version)
          \/ MkRoot
          \/ \E path \in NsPaths : SvcCreate(path, S_IFREG + 420, 0, 0)
       /\ UNCHANGED nsVars
    \/ \E path \in NsPaths, data \in NsData, offset \in NsOffsets :
           NsWrite(path, data, offset)
    \/ \E path \in NsPaths, offset \in NsOffsets, size \in ReadSizes :
           NsRead(path, offset, size)

(***************************************************************************)
(* KVMetaEngine::AddSlice / GetLayout over a KVClient                      *)
(* (include/nebulastore/metadata/meta_engine.h): a slice is stored under   *)
(* "S" + EncodeU64(inode) + EncodeU64(offset); a layout is the scan of the *)
(* keys of the inode in key order.                                         *)
(***************************************************************************)
MaxEngOps == 4         \* AddSlice and GetLayout calls in one behaviour
MaxSliceOff == 2       \* largest file offset of a slice
MaxSliceLen == 2       \* largest size of a slice
NumSliceIds == 2       \* distinct slice ids

EngInodes == 2..3
SliceInputs ==
    {[slice_id |-> id, offset |-> offset, size |-> size,
      storage_key |-> <<"k", id>>] :
        id \in 1..NumSliceIds, offset \in 0..MaxSliceOff, size \in 1..MaxSliceLen}

VARIABLES
    engDb,      \* the KVClient: key -> value
    engLast,    \* history: the last call and, for GetLayout, its layout
    nEngOps

engVars == <<engDb, engLast, nEngOps>>

\* EncodeU64 is big-endian, so the byte order of two keys is the order of
\* their fields taken as numbers.
EncodeSliceKey(inode, offset) == <<"S", inode, offset>>

\* EncodeSliceValue / DecodeSliceValue: four 8-byte fields, then the key.
EncodeSliceValue(sl) ==
    <<sl.slice_id, sl.offset, sl.size, Len(sl.storage_key)>> \o sl.storage_key
DecodeSliceValue(s) ==
    [slice_id |-> s[1], offset |-> s[2], size |-> s[3],
     storage_key |-> SubSeq(s, 5, 4 + s[4])]

\* RocksDBKVClient::Scan(start = "S" + inode, end = "S" + (inode + 1)): the
\* pairs of the keys in [start, end), in ascending key order.
RECURSIVE ScanFrom(_, _, _)
ScanFrom(db, inode, from) ==
    LET ks == {k \in DOMAIN db : k[1] = "S" /\ k[2] = inode /\ k[3] >= from} IN
    IF ks = {} THEN <<>>
    ELSE LET k == CHOOSE k \in ks : \A j \in ks : k[3] <= j[3] IN
         <<[key |-> k, value |-> db[k]]>> \o ScanFrom(db, inode, k[3] + 1)

\* KVMetaEngine::AddSlice: a Set under the key of (inode, slice.offset).
KVMetaEngineAddSlice(db, inode, slice) ==
    Put(db, EncodeSliceKey(inode, slice.offset), EncodeSliceValue(slice))

\* KVMetaEngine::GetLayout: the decoded values of the scan, in scan order.
KVMetaEngineGetLayout(db, inode) ==
    LET kvs == ScanFrom(db, inode, 0) IN
    [inode_id |-> inode,
     slices |-> [i \in 1..Len(kvs) |-> DecodeSliceValue(kvs[i].value)]]

EngInit ==
    /\ engDb = EmptyMap
    /\ engLast = [op |-> "none", inode |-> 0, slices |-> <<>>]
    /\ nEngOps = 0

EngAddSlice(inode, slice) ==
    /\ nEngOps < MaxEngOps
    /\ engDb' = KVMetaEngineAddSlice(engDb, inode, slice)
    /\ engLast' = [op |-> "add_slice", inode |-> inode, slices |-> <<>>]
    /\ nEngOps' = nEngOps + 1

EngGetLayout(inode) ==
    /\ nEngOps < MaxEngOps
    /\ engLast' = [op |-> "get_layout", inode |-> inode,
                   slices |-> KVMetaEngineGetLayout(engDb, inode).slices]
    /\ nEngOps' = nEngOps + 1
    /\ UNCHANGED engDb

EngNext ==
    \/ \E inode \in EngInodes, slice \in SliceInputs : EngAddSlice(inode, slice)
    \/ \E inode \in EngInodes : EngGetLayout(inode)

(***************************************************************************)
(* MetadataServiceImpl::GenerateInodeID called from several threads        *)
(* (src/metadata/metadata_service_impl.cpp): a lock_guard on               *)
(* next_inode_mutex_ around `return next_inode_++`.                        *)
(***************************************************************************)
NumIdThreads == 3      \* threads calling GenerateInodeID
MaxIdCalls == 4        \* GenerateInodeID calls in one behaviour

IdThreads == 1..NumIdThreads

VARIABLES
    next_inode_mutex_,  \* the thread that holds the mutex, 0 when it is free
    idPc,               \* position of each thread inside GenerateInodeID
    idLocal,            \* per thread, the value of the expression next_inode_++
    idIssued,           \* history: the values read, in the order of the reads
    idHist              \* history: the calls that returned, [t, id], in order

idVars == <<next_inode_mutex_, idPc, idLocal, idIssued, idHist>>

IdInit ==
    /\ next_inode_mutex_ = 0
    /\ idPc = [t \in IdThreads |-> "idle"]
    /\ idLocal = [t \in IdThreads |-> 0]
    /\ idIssued = <<>>
    /\ idHist = <<>>

\* The calls started so far.
IdCalls == Len(idHist) + Cardinality({t \in IdThreads : idPc[t] # "idle"})

\* std::lock_guard<std::mutex> lock(next_inode_mutex_) can be taken.
MutexFreeMutNoMutex == TRUE
MutexFree == next_inode_mutex_ = 0

\* line 60: the lock is taken.
GenLock(t) ==
    /\ idPc[t] = "idle"
    /\ IdCalls < MaxIdCalls
    /\ MutexFree
    /\ next_inode_mutex_' = t
    /\ idPc' = [idPc EXCEPT ![t] = "locked"]
    /\ UNCHANGED <<next_inode_, idLocal, idIssued, idHist>>

\* line 61, next_inode_++: the old value is read ...
GenRead(t) ==
    /\ idPc[t] = "locked"
    /\ idLocal' = [idLocal EXCEPT ![t] = next_inode_]
    /\ idIssued' = Append(idIssued, next_inode_)
    /\ idPc' = [idPc EXCEPT ![t] = "read"]
    /\ UNCHANGED <<next_inode_, next_inode_mutex_, idHist>>

\* ... and the old value plus one is written back.
GenWrite(t) ==
    /\ idPc[t] = "read"
    /\ next_inode_' = idLocal[t] + 1
    /\ idPc' = [idPc EXCEPT ![t] = "written"]
    /\ UNCHANGED <<next_inode_mutex_, idLocal, idIssued, idHist>>

\* The lock_guard goes out of scope.
GenUnlock(t) ==
    /\ idPc[t] = "written"
    /\ next_inode_mutex_' = IF next_inode_mutex_ = t THEN 0 ELSE next_inode_mutex_
    /\ idPc' = [idPc EXCEPT ![t] = "unlocked"]
    /\ UNCHANGED <<next_inode_, idLocal, idIssued, idHist>>

\* The caller has the value.
GenReturn(t) ==
    /\ idPc[t] = "unlocked"
    /\ idHist' = Append(idHist, [t |-> t, id |-> idLocal[t]])
    /\ idPc' = [idPc EXCEPT ![t] = "idle"]
    /\ UNCHANGED <<next_inode_, next_inode_mutex_, idLocal, idIssued>>

IdNext ==
    /\ \E t \in IdThreads :
          GenLock(t) \/ GenRead(t) \/ GenWrite(t) \/ GenUnlock(t) \/ GenReturn(t)
    /\ UNCHANGED <<impl, parts, lastOp, made, nOps, thr>>

(***************************************************************************)
(* RocksDBStore value codecs at byte level (rocksdb_store.cpp:168-420).    *)
(* A 64-bit field is held as four 16-bit limbs and a 32-bit field as two,  *)
(* least significant first; an encoded value is a sequence of bytes        *)
(* (0..255).  Strings (names, storage keys) are sequences of bytes.        *)
(* Two properties of the build are fixed before the first call:            *)
(*   charSigned - whether plain char is "signed" or "unsigned"             *)
(*                (implementation-defined);                                *)
(*   shiftUB    - what an int shifted by 32 or more bits yields, which is  *)
(*                undefined: "mask" (the count taken modulo 32) or "zero". *)
(***************************************************************************)
VARIABLES charSigned, shiftUB, codecIn, codecBytes, codecOut

codecVars == <<charSigned, shiftUB, codecIn, codecBytes, codecOut>>

NoCodec == [kind |-> "none"]

U64Samples ==
    { <<0, 0, 0, 0>>, <<1, 0, 0, 0>>, <<12345, 0, 0, 0>>, <<128, 0, 0, 0>>,
      <<0, 0, 1, 0>>, <<65535, 65535, 65535, 65535>> }

U32Samples == { <<1000, 0>>, <<33188, 0>>, <<0, 32768>> }

FileTypes == { <<1, 0>>, <<2, 0>>, <<3, 0>> }

CodecNames == { <<>>, <<97>>, <<116, 120, 116>> }

DentryInputs ==
    [name : CodecNames, inode_id : U64Samples, type : FileTypes]

InodeInputs ==
    [inode_id : {<<100, 0, 0, 0>>, <<0, 0, 1, 0>>},
     mode : {<<33188, 0>>}, uid : {<<1000, 0>>}, gid : {<<1000, 0>>, <<0, 32768>>},
     size : {<<4096, 0, 0, 0>>, <<128, 0, 0, 0>>, <<0, 0, 1, 0>>},
     mtime : {<<722, 18838, 0, 0>>, <<65535, 65535, 65535, 65535>>},
     ctime : {<<722, 18838, 0, 0>>},
     nlink : {<<1, 0, 0, 0>>, <<255, 0, 0, 0>>}]

SliceSamples ==
    { [slice_id |-> <<1, 0, 0, 0>>, offset |-> <<0, 0, 0, 0>>,
       size |-> <<1024, 0, 0, 0>>, storage_key |-> <<99, 47, 48>>],
      [slice_id |-> <<2, 0, 0, 0>>, offset |-> <<1024, 0, 0, 0>>,
       size |-> <<2048, 0, 0, 0>>, storage_key |-> <<>>],
      [slice_id |-> <<3, 0, 0, 0>>, offset |-> <<128, 0, 0, 0>>,
       size |-> <<1, 0, 0, 0>>, storage_key |-> <<200>>] }

SliceLists ==
    {<<>>} \cup {<<s>> : s \in SliceSamples}
           \cup {<<s, t>> : s \in SliceSamples, t \in SliceSamples}

LayoutInputs ==
    [inode_id : {<<0, 0, 0, 0>>, <<200, 0, 0, 0>>},
     chunk_size : {<<0, 64, 0, 0>>, <<128, 0, 0, 0>>},
     slices : SliceLists]

(* (v >> (i * 8)) & 0xFF for i = 0 .. n-1, pushed in that order. *)
ByteOf(v, i) == (v[(i \div 2) + 1] \div (IF i % 2 = 0 THEN 1 ELSE 256)) % 256

PushLE(v, n) == [k \in 1..n |-> ByteOf(v, k - 1)]

RECURSIVE BitOr(_, _)
BitOr(x, y) ==
    IF x = 0 THEN y
    ELSE IF y = 0 THEN x
    ELSE (IF x % 2 = 1 \/ y % 2 = 1 THEN 1 ELSE 0) + 2 * BitOr(x \div 2, y \div 2)

(* The limbs of the value whose bytes are b[0] .. b[n-1]. *)
Limbs(b, n) == [k \in 1..(n \div 2) |-> b[2 * k - 2] + 256 * b[2 * k - 1]]

(* static_cast<uint64_t>(value[pos]) << (i * 8): value[pos] is a plain     *)
(* char, so a byte of 0x80 or more is sign-extended to 64 bits before the  *)
(* shift when char is signed.                                              *)
TermCharShift(b, i) ==
    [j \in 0..7 |->
        IF j < i THEN 0
        ELSE IF j = i THEN b
        ELSE IF charSigned = "signed" /\ b >= 128 THEN 255 ELSE 0]

(* static_cast<uint8_t>(value[pos]) << (i * 8): the operand is promoted to *)
(* int; the int result is then converted to the 64-bit destination (sign   *)
(* extension).  For i >= 4 the shift count is 32 or more.                  *)
TermUint8Shift(b, i) ==
    LET s == IF i < 4 THEN i ELSE i - 4
        neg == s = 3 /\ b >= 128
    IN  IF i >= 4 /\ shiftUB = "zero"
        THEN [j \in 0..7 |-> 0]
        ELSE [j \in 0..7 |->
                IF j = s THEN b
                ELSE IF j >= 4 /\ neg THEN 255 ELSE 0]

RECURSIVE OrTerms(_, _, _, _)
OrTerms(Term(_, _), value, pos, i) ==
    IF i = 8 THEN [j \in 0..7 |-> 0]
    ELSE LET t == Term(value[pos + i + 1], i)
             r == OrTerms(Term, value, pos, i + 1)
         IN  [j \in 0..7 |-> BitOr(t[j], r[j])]

DecodeU64Char(value, pos) == Limbs(OrTerms(TermCharShift, value, pos, 0), 8)

DecodeU64Uint8(value, pos) == Limbs(OrTerms(TermUint8Shift, value, pos, 0), 8)

(* A 32-bit destination keeps the low four bytes of each int term. *)
DecodeU32(value, pos) == Limbs([j \in 0..3 |-> value[pos + j + 1]], 4)

(* The numeric value of a 32-bit field that is known to be small. *)
U32Value(v) == v[1] + 65536 * (v[2] % 16384)

EncodeDentryValueBytes(dentry) ==
    PushLE(dentry.inode_id, 8) \o PushLE(dentry.type, 4)

DecodeDentryValueBytes(value) ==
    IF Len(value) < 12
    THEN [name |-> <<>>, inode_id |-> <<0, 0, 0, 0>>, type |-> <<0, 0>>]
    ELSE [name |-> <<>>,
          inode_id |-> DecodeU64Uint8(value, 0),
          type |-> DecodeU32(value, 8)]

EncodeInodeValueBytes(attr) ==
    PushLE(attr.inode_id, 8) \o PushLE(attr.mode, 4) \o PushLE(attr.uid, 4)
    \o PushLE(attr.gid, 4) \o PushLE(attr.size, 8) \o PushLE(attr.mtime, 8)
    \o PushLE(attr.ctime, 8) \o PushLE(attr.nlink, 8)

DecodeInodeValueBytes(value) ==
    IF Len(value) < 52
    THEN [inode_id |-> <<0, 0, 0, 0>>, mode |-> <<0, 0>>, uid |-> <<0, 0>>,
          gid |-> <<0, 0>>, size |-> <<0, 0, 0, 0>>, mtime |-> <<0, 0, 0, 0>>,
          ctime |-> <<0, 0, 0, 0>>, nlink |-> <<0, 0, 0, 0>>]
    ELSE [inode_id |-> DecodeU64Uint8(value, 0),
          mode |-> DecodeU32(value, 8),
          uid |-> DecodeU32(value, 12),
          gid |-> DecodeU32(value, 16),
          size |-> DecodeU64Char(value, 20),
          mtime |-> DecodeU64Char(value, 28),
          ctime |-> DecodeU64Char(value, 36),
          nlink |-> DecodeU64Char(value, 44)]

RECURSIVE EncodeSlices(_, _)
EncodeSlices(slices, k) ==
    IF k > Len(slices) THEN <<>>
    ELSE LET slice == slices[k]
         IN  PushLE(slice.slice_id, 8) \o PushLE(slice.offset, 8)
             \o PushLE(slice.size, 8)
             \o PushLE(<<Len(slice.storage_key), 0>>, 4)
             \o slice.storage_key \o EncodeSlices(slices, k + 1)

EncodeLayoutValue(layout) ==
    PushLE(layout.chunk_size, 8) \o PushLE(<<Len(layout.slices), 0>>, 4)
    \o EncodeSlices(layout.slices, 1)

RECURSIVE DecodeSlices(_, _, _, _)
DecodeSlices(value, pos, s, count) ==
    IF ~(s < count /\ pos + 28 <= Len(value)) THEN <<>>
    ELSE LET key_len == U32Value(DecodeU32(value, pos + 24))
             p == pos + 28
         IN  IF p + key_len <= Len(value)
             THEN <<[slice_id |-> DecodeU64Char(value, pos),
                     offset |-> DecodeU64Char(value, pos + 8),
                     size |-> DecodeU64Char(value, pos + 16),
                     storage_key |-> SubSeq(value, p + 1, p + key_len)]>>
                  \o DecodeSlices(value, p + key_len, s + 1, count)
             ELSE <<>>

DecodeLayoutValue(value) ==
    IF Len(value) < 12
    THEN [inode_id |-> <<0, 0, 0, 0>>, chunk_size |-> <<0, 0, 0, 0>>, slices |-> <<>>]
    ELSE [inode_id |-> <<0, 0, 0, 0>>,
          chunk_size |-> DecodeU64Char(value, 0),
          slices |-> DecodeSlices(value, 12, 0, U32Value(DecodeU32(value, 8)))]

CodecInit ==
    /\ charSigned = "unset"
    /\ shiftUB = "unset"
    /\ codecIn = NoCodec
    /\ codecBytes = <<>>
    /\ codecOut = NoCodec

CodecBuild ==
    /\ charSigned = "unset"
    /\ charSigned' \in {"signed", "unsigned"}
    /\ shiftUB' \in {"mask", "zero"}
    /\ UNCHANGED <<codecIn, codecBytes, codecOut>>

CodecEncodeDentry ==
    \E d \in DentryInputs :
        /\ charSigned # "unset"
        /\ codecIn' = [kind |-> "dentry", v |-> d]
        /\ codecBytes' = EncodeDentryValueBytes(d)
        /\ codecOut' = NoCodec
        /\ UNCHANGED <<charSigned, shiftUB>>

CodecEncodeInode ==
    \E a \in InodeInputs :
        /\ charSigned # "unset"
        /\ codecIn' = [kind |-> "inode", v |-> a]
        /\ codecBytes' = EncodeInodeValueBytes(a)
        /\ codecOut' = NoCodec
        /\ UNCHANGED <<charSigned, shiftUB>>

CodecEncodeLayout ==
    \E l \in LayoutInputs :
        /\ charSigned # "unset"
        /\ codecIn' = [kind |-> "layout", v |-> l]
        /\ codecBytes' = EncodeLayoutValue(l)
        /\ codecOut' = NoCodec
        /\ UNCHANGED <<charSigned, shiftUB>>

CodecDecode ==
    /\ codecIn.kind # "none"
    /\ codecOut = NoCodec
    /\ codecOut' =
         [kind |-> codecIn.kind,
          v |-> CASE codecIn.kind = "dentry" -> DecodeDentryValueBytes(codecBytes)
                  [] codecIn.kind = "inode" -> DecodeInodeValueBytes(codecBytes)
                  [] codecIn.kind = "layout" -> DecodeLayoutValue(codecBytes)]
    /\ UNCHANGED <<charSigned, shiftUB, codecIn, codecBytes>>

CodecNext ==
    \/ CodecBuild
    \/ CodecEncodeDentry
    \/ CodecEncodeInode
    \/ CodecEncodeLayout
    \/ CodecDecode

(***************************************************************************)
(* Semaphore   (include/nebulastore/common/semaphore.h)                    *)
(* Each caller is a thread or a coroutine; every member function body runs *)
(* under mutex_, so it is one step.  handle.resume() runs the suspended    *)
(* coroutine on the resuming thread: co_wait returns there (await_resume   *)
(* is empty).                                                              *)
(***************************************************************************)
NumSemCallers == 3     \* threads and coroutines using the semaphore
MaxSemCount == 2       \* largest count given to the constructor
MaxSemOps == 5         \* calls started in one behaviour

SemCallers == 1..NumSemCallers

VARIABLES
    count_,       \* Semaphore::count_
    waiters_,     \* Semaphore::waiters_: the suspended coroutines, in order
    semPc,        \* per caller: "idle", "blocked" (in wait), "not_ready"
                  \* (await_ready returned false), "suspended"
    semInitial,   \* history: the count given to the constructor
    semSignals,   \* history: signal calls made
    semAcquired,  \* history: acquisitions completed
    semOps        \* calls started

semVars == <<count_, waiters_, semPc, semInitial, semSignals, semAcquired, semOps>>

\* Semaphore(int count = 0)
SemInit ==
    /\ count_ = 0
    /\ waiters_ = <<>>
    /\ semPc = [p \in SemCallers |-> "idle"]
    /\ semInitial = 0
    /\ semSignals = 0
    /\ semAcquired = 0
    /\ semOps = 0

\* Semaphore(count) with a count other than the default, before any call.
SemConstruct(c) ==
    /\ semOps = 0
    /\ semInitial = 0
    /\ count_' = c
    /\ semInitial' = c
    /\ UNCHANGED <<waiters_, semPc, semSignals, semAcquired, semOps>>

\* signal: ++count_; the first suspended coroutine, if any, is popped and
\* resumed (count_ is left as it is), otherwise notify_one.
signal(p) ==
    /\ semPc[p] = "idle"
    /\ semOps < MaxSemOps
    /\ semOps' = semOps + 1
    /\ semSignals' = semSignals + 1
    /\ count_' = count_ + 1
    /\ IF waiters_ # <<>>
       THEN /\ waiters_' = Tail(waiters_)
            /\ semPc' = [semPc EXCEPT ![Head(waiters_)] = "idle"]
            /\ semAcquired' = semAcquired + 1
       ELSE UNCHANGED <<waiters_, semPc, semAcquired>>
    /\ UNCHANGED semInitial

\* wait: called; the caller blocks in cv_.wait while count_ is 0.
SemWaitCall(p) ==
    /\ semPc[p] = "idle"
    /\ semOps < MaxSemOps
    /\ semOps' = semOps + 1
    /\ semPc' = [semPc EXCEPT ![p] = "blocked"]
    /\ UNCHANGED <<count_, waiters_, semInitial, semSignals, semAcquired>>

\* wait: the predicate count_ > 0 holds under the lock; --count_ and return.
SemWaitReturn(p) ==
    /\ semPc[p] = "blocked"
    /\ count_ > 0
    /\ count_' = count_ - 1
    /\ semAcquired' = semAcquired + 1
    /\ semPc' = [semPc EXCEPT ![p] = "idle"]
    /\ UNCHANGED <<waiters_, semInitial, semSignals, semOps>>

\* try_wait
try_wait(p) ==
    /\ semPc[p] = "idle"
    /\ semOps < MaxSemOps
    /\ semOps' = semOps + 1
    /\ IF count_ > 0
       THEN count_' = count_ - 1 /\ semAcquired' = semAcquired + 1
       ELSE UNCHANGED <<count_, semAcquired>>
    /\ UNCHANGED <<waiters_, semPc, semInitial, semSignals>>

\* co_await co_wait(): await_ready is try_wait; on true the coroutine goes on.
CoWaitReady(p) ==
    /\ semPc[p] = "idle"
    /\ semOps < MaxSemOps
    /\ semOps' = semOps + 1
    /\ IF count_ > 0
       THEN /\ count_' = count_ - 1
            /\ semAcquired' = semAcquired + 1
            /\ UNCHANGED semPc
       ELSE /\ semPc' = [semPc EXCEPT ![p] = "not_ready"]
            /\ UNCHANGED <<count_, semAcquired>>
    /\ UNCHANGED <<waiters_, semInitial, semSignals>>

\* CoWaitAwaiter::await_suspend: takes the lock again; resumes at once when a
\* permit has arrived in between, else queues the handle.
CoWaitSuspend(p) ==
    /\ semPc[p] = "not_ready"
    /\ IF count_ > 0
       THEN /\ count_' = count_ - 1
            /\ semAcquired' = semAcquired + 1
            /\ semPc' = [semPc EXCEPT ![p] = "idle"]
            /\ UNCHANGED waiters_
       ELSE /\ waiters_' = Append(waiters_, p)
            /\ semPc' = [semPc EXCEPT ![p] = "suspended"]
            /\ UNCHANGED <<count_, semAcquired>>
    /\ UNCHANGED <<semInitial, semSignals, semOps>>

SemNext ==
    \/ \E c \in 1..MaxSemCount : SemConstruct(c)
    \/ \E p \in SemCallers : signal(p)
    \/ \E p \in SemCallers : SemWaitCall(p)
    \/ \E p \in SemCallers : SemWaitReturn(p)
    \/ \E p \in SemCallers : try_wait(p)
    \/ \E p \in SemCallers : CoWaitReady(p)
    \/ \E p \in SemCallers : CoWaitSuspend(p)

(***************************************************************************)
(* BoundedQueue   (include/nebulastore/common/bounded_queue.h)             *)
(* A caller is a thread or a coroutine.  A member function body that runs  *)
(* under mutex_ is one step; a handle resumed after lock.unlock() runs in  *)
(* a later step of the resuming thread, and the await_resume of            *)
(* CoEnqueueAwaiter takes the lock anew after await_ready has released it. *)
(* Every enqueue carries a fresh item.  front() and pop_front() on an      *)
(* empty deque, and locking mutex_ on the thread that holds it, are        *)
(* undefined: the outcomes kept are a crash or deadlock, and going on      *)
(* (with some item as the result, or with the lock taken).                 *)
(***************************************************************************)
NumQCallers == 3       \* threads and coroutines using the queue
QueueCapacity == 1     \* the capacity given to the constructor
MaxQOps == 5           \* calls started in one behaviour

QCallers == 1..NumQCallers
QItems == 1..MaxQOps

VARIABLES
    queue_,            \* BoundedQueue::queue_
    enqueue_waiters_,  \* suspended co_enqueue coroutines, in order
    dequeue_waiters_,  \* suspended co_dequeue coroutines, in order
    qPc,               \* per caller: position in its call
    qArg,              \* per caller: the item of its enqueue, or the handle it is to resume
    qStatus,           \* "ok", "crashed" or "deadlocked"
    qPushed,           \* history: item -> times pushed into queue_
    qTaken,            \* history: item -> times handed to a consumer
    qEmptyPop,         \* history: front() was called on an empty queue_
    qOps               \* calls started

queueVars == <<queue_, enqueue_waiters_, dequeue_waiters_, qPc, qArg, qStatus,
               qPushed, qTaken, qEmptyPop, qOps>>

capacity_ == QueueCapacity

QInit ==
    /\ queue_ = <<>>
    /\ enqueue_waiters_ = <<>>
    /\ dequeue_waiters_ = <<>>
    /\ qPc = [p \in QCallers |-> "idle"]
    /\ qArg = [p \in QCallers |-> 0]
    /\ qStatus = "ok"
    /\ qPushed = [i \in QItems |-> 0]
    /\ qTaken = [i \in QItems |-> 0]
    /\ qEmptyPop = FALSE
    /\ qOps = 0

\* A call starts: the caller is idle and the behaviour has calls left.
QStart(p) ==
    /\ qStatus = "ok"
    /\ qPc[p] = "idle"
    /\ qOps < MaxQOps
    /\ qOps' = qOps + 1

\* A call goes on.
QStep(p, pc) ==
    /\ qStatus = "ok"
    /\ qPc[p] = pc
    /\ UNCHANGED qOps

\* queue_.push_back(item)
PushBack(item) == Append(queue_, item)

Pushed(item) == [qPushed EXCEPT ![item] = @ + 1]
Taken(item) == [qTaken EXCEPT ![item] = @ + 1]

\* enqueue(item) is called; it waits on cv_not_full_ while the queue is full.
EnqueueCall(p) ==
    /\ QStart(p)
    /\ qPc' = [qPc EXCEPT ![p] = "enqueue"]
    /\ qArg' = [qArg EXCEPT ![p] = qOps + 1]
    /\ UNCHANGED <<queue_, enqueue_waiters_, dequeue_waiters_, qStatus,
                   qPushed, qTaken, qEmptyPop>>

\* enqueue, lines 18-31: push_back under the lock; a suspended consumer is
\* popped and resumed after the lock is released, else notify_one.
enqueue(p) ==
    /\ QStep(p, "enqueue")
    /\ Len(queue_) < capacity_
    /\ queue_' = PushBack(qArg[p])
    /\ qPushed' = Pushed(qArg[p])
    /\ IF dequeue_waiters_ # <<>>
       THEN /\ dequeue_waiters_' = Tail(dequeue_waiters_)
            /\ qPc' = [qPc EXCEPT ![p] = "resume_consumer"]
            /\ qArg' = [qArg EXCEPT ![p] = Head(dequeue_waiters_)]
       ELSE /\ qPc' = [qPc EXCEPT ![p] = "idle"]
            /\ UNCHANGED <<dequeue_waiters_, qArg>>
    /\ UNCHANGED <<enqueue_waiters_, qStatus, qTaken, qEmptyPop>>

\* front() and pop_front() under the lock, by consumer h on behalf of which
\* thread p runs; the queue may be empty.
TakeFront(p, h) ==
    IF queue_ # <<>>
    THEN /\ queue_' = Tail(queue_)
         /\ qTaken' = Taken(Head(queue_))
         /\ qPc' = [qPc EXCEPT ![p] = "idle", ![h] = "idle"]
         /\ UNCHANGED <<qStatus, qEmptyPop>>
    ELSE /\ qEmptyPop' = TRUE
         /\ \/ /\ qStatus' = "crashed"
               /\ UNCHANGED <<queue_, qTaken, qPc>>
            \/ \E garbage \in QItems :
                  /\ qTaken' = Taken(garbage)
                  /\ qPc' = [qPc EXCEPT ![p] = "idle", ![h] = "idle"]
                  /\ UNCHANGED <<queue_, qStatus>>

\* enqueue, line 27: h.resume() runs CoDequeueAwaiter::await_resume of the
\* consumer, whose result is empty: it takes the lock and the front item.
EnqueueResume(p) ==
    /\ QStep(p, "resume_consumer")
    /\ TakeFront(p, qArg[p])
    /\ UNCHANGED <<enqueue_waiters_, dequeue_waiters_, qArg, qPushed>>

\* dequeue() is called; it waits on cv_not_empty_ while the queue is empty.
DequeueCall(p) ==
    /\ QStart(p)
    /\ qPc' = [qPc EXCEPT ![p] = "dequeue"]
    /\ UNCHANGED <<queue_, enqueue_waiters_, dequeue_waiters_, qArg, qStatus,
                   qPushed, qTaken, qEmptyPop>>

\* dequeue, lines 35-47: pop_front under the lock; a suspended producer is
\* popped and resumed after the lock is released, else notify_one.
dequeue(p) ==
    /\ QStep(p, "dequeue")
    /\ queue_ # <<>>
    /\ queue_' = Tail(queue_)
    /\ qTaken' = Taken(Head(queue_))
    /\ IF enqueue_waiters_ # <<>>
       THEN /\ enqueue_waiters_' = Tail(enqueue_waiters_)
            /\ qPc' = [qPc EXCEPT ![p] = "resume_producer"]
            /\ qArg' = [qArg EXCEPT ![p] = Head(enqueue_waiters_)]
       ELSE /\ qPc' = [qPc EXCEPT ![p] = "idle"]
            /\ UNCHANGED <<enqueue_waiters_, qArg>>
    /\ UNCHANGED <<dequeue_waiters_, qStatus, qPushed, qEmptyPop>>

\* dequeue, line 43: h.resume() runs CoEnqueueAwaiter::await_resume of the
\* producer: push_back under the lock, whatever the size.
DequeueResume(p) ==
    /\ QStep(p, "resume_producer")
    /\ LET h == qArg[p] IN
         /\ queue_' = PushBack(qArg[h])
         /\ qPushed' = Pushed(qArg[h])
         /\ qPc' = [qPc EXCEPT ![p] = "idle", ![h] = "idle"]
    /\ UNCHANGED <<enqueue_waiters_, dequeue_waiters_, qArg, qStatus, qTaken, qEmptyPop>>

\* try_dequeue
try_dequeue(p) ==
    /\ QStart(p)
    /\ IF queue_ = <<>>
       THEN UNCHANGED <<queue_, qTaken>>
       ELSE queue_' = Tail(queue_) /\ qTaken' = Taken(Head(queue_))
    /\ UNCHANGED <<enqueue_waiters_, dequeue_waiters_, qPc, qArg, qStatus,
                   qPushed, qEmptyPop>>

\* try_steal: takes the back item.
try_steal(p) ==
    /\ QStart(p)
    /\ IF queue_ = <<>>
       THEN UNCHANGED <<queue_, qTaken>>
       ELSE /\ queue_' = SubSeq(queue_, 1, Len(queue_) - 1)
            /\ qTaken' = Taken(queue_[Len(queue_)])
    /\ UNCHANGED <<enqueue_waiters_, dequeue_waiters_, qPc, qArg, qStatus,
                   qPushed, qEmptyPop>>

\* co_await co_enqueue(item): CoEnqueueAwaiter::await_ready.
CoEnqueueReady(p) ==
    /\ QStart(p)
    /\ qArg' = [qArg EXCEPT ![p] = qOps + 1]
    /\ qPc' = [qPc EXCEPT ![p] =
                  IF Len(queue_) < capacity_ THEN "co_enqueue_resume"
                  ELSE "co_enqueue_suspend"]
    /\ UNCHANGED <<queue_, enqueue_waiters_, dequeue_waiters_, qStatus,
                   qPushed, qTaken, qEmptyPop>>

\* CoEnqueueAwaiter::await_suspend: with room, h.resume() is called with the
\* lock held and await_resume locks mutex_ again on the same thread;
\* otherwise the handle is queued.
CoEnqueueSuspend(p) ==
    /\ QStep(p, "co_enqueue_suspend")
    /\ IF Len(queue_) < capacity_
       THEN \/ /\ qStatus' = "deadlocked"
               /\ UNCHANGED <<queue_, enqueue_waiters_, qPc, qPushed>>
            \/ /\ queue_' = PushBack(qArg[p])
               /\ qPushed' = Pushed(qArg[p])
               /\ qPc' = [qPc EXCEPT ![p] = "idle"]
               /\ UNCHANGED <<enqueue_waiters_, qStatus>>
       ELSE /\ enqueue_waiters_' = Append(enqueue_waiters_, p)
            /\ qPc' = [qPc EXCEPT ![p] = "co_enqueue_suspended"]
            /\ UNCHANGED <<queue_, qStatus, qPushed>>
    /\ UNCHANGED <<dequeue_waiters_, qArg, qTaken, qEmptyPop>>

\* CoEnqueueAwaiter::await_resume after await_ready returned true:
\* push_back under the lock, whatever the size.
CoEnqueueResume(p) ==
    /\ QStep(p, "co_enqueue_resume")
    /\ queue_' = PushBack(qArg[p])
    /\ qPushed' = Pushed(qArg[p])
    /\ qPc' = [qPc EXCEPT ![p] = "idle"]
    /\ UNCHANGED <<enqueue_waiters_, dequeue_waiters_, qArg, qStatus, qTaken, qEmptyPop>>

\* co_await co_dequeue(): CoDequeueAwaiter::await_ready; with an item the
\* result is set and await_resume returns it.
CoDequeueReady(p) ==
    /\ QStart(p)
    /\ IF queue_ # <<>>
       THEN /\ queue_' = Tail(queue_)
            /\ qTaken' = Taken(Head(queue_))
            /\ UNCHANGED qPc
       ELSE /\ qPc' = [qPc EXCEPT ![p] = "co_dequeue_suspend"]
            /\ UNCHANGED <<queue_, qTaken>>
    /\ UNCHANGED <<enqueue_waiters_, dequeue_waiters_, qArg, qStatus, qPushed, qEmptyPop>>

\* CoDequeueAwaiter::await_suspend: with an item the result is set and the
\* coroutine resumed (await_resume takes no lock then); otherwise the handle
\* is queued.
CoDequeueSuspend(p) ==
    /\ QStep(p, "co_dequeue_suspend")
    /\ IF queue_ # <<>>
       THEN /\ queue_' = Tail(queue_)
            /\ qTaken' = Taken(Head(queue_))
            /\ qPc' = [qPc EXCEPT ![p] = "idle"]
            /\ UNCHANGED dequeue_waiters_
       ELSE /\ dequeue_waiters_' = Append(dequeue_waiters_, p)
            /\ qPc' = [qPc EXCEPT ![p] = "co_dequeue_suspended"]
            /\ UNCHANGED <<queue_, qTaken>>
    /\ UNCHANGED <<enqueue_waiters_, qArg, qStatus, qPushed, qEmptyPop>>

\* The steps of calls under way: a thread that holds no lock and is not
\* waiting goes on.
QContinue ==
    \E p \in QCallers :
        \/ enqueue(p) \/ EnqueueResume(p) \/ dequeue(p) \/ DequeueResume(p)
        \/ CoEnqueueSuspend(p) \/ CoEnqueueResume(p) \/ CoDequeueSuspend(p)

QNext ==
    \/ \E p \in QCallers : EnqueueCall(p)
    \/ \E p \in QCallers : enqueue(p)
    \/ \E p \in QCallers : EnqueueResume(p)
    \/ \E p \in QCallers : DequeueCall(p)
    \/ \E p \in QCallers : dequeue(p)
    \/ \E p \in QCallers : DequeueResume(p)
    \/ \E p \in QCallers : try_dequeue(p)
    \/ \E p \in QCallers : try_steal(p)
    \/ \E p \in QCallers : CoEnqueueReady(p)
    \/ \E p \in QCallers : CoEnqueueSuspend(p)
    \/ \E p \in QCallers : CoEnqueueResume(p)
    \/ \E p \in QCallers : CoDequeueReady(p)
    \/ \E p \in QCallers : CoDequeueSuspend(p)

(***************************************************************************)
(* CoroutinesPool   (include/nebulastore/common/coroutines_pool.h)         *)
(* One start/stop cycle of a pool.  running_ and next_queue_ are atomics:  *)
(* each access is a step of its own; the queue operations are steps of     *)
(* their own (each runs under the queue's mutex).  A worker takes a job    *)
(* and runs it in one step: nothing else observes the job in between.      *)
(* Every submit carries a fresh job.                                       *)
(***************************************************************************)
NumWorkers == 2        \* Config::num_workers
PoolQueueSize == 2     \* Config::queue_size
NumSubmitters == 2     \* threads calling submit / submit_to
MaxJobs == 3           \* submit calls in one behaviour

Workers == 0..(NumWorkers - 1)
Submitters == 1..NumSubmitters
Jobs == 1..MaxJobs

VARIABLES
    running_,      \* CoroutinesPool::running_
    next_queue_,   \* CoroutinesPool::next_queue_
    queues_,       \* per worker: the jobs in its BoundedQueue
    workerPc,      \* per worker: "none" (no thread), "loop", "steal", "drain", "done"
    submitPc,      \* per submitter: "idle" or "enqueue"
    submitArg,     \* per submitter: the job and queue index of its call
    stopPc,        \* "idle", "join" or "returned"
    nJobs,         \* jobs handed to submit so far
    accepted,      \* history: job -> submit returned true
    executed       \* history: job -> times run

poolVars == <<running_, next_queue_, queues_, workerPc, submitPc, submitArg,
              stopPc, nJobs, accepted, executed>>

PoolInit ==
    /\ running_ = FALSE
    /\ next_queue_ = 0
    /\ queues_ = [w \in Workers |-> <<>>]
    /\ workerPc = [w \in Workers |-> "none"]
    /\ submitPc = [s \in Submitters |-> "idle"]
    /\ submitArg = [s \in Submitters |-> [job |-> 0, idx |-> 0]]
    /\ stopPc = "idle"
    /\ nJobs = 0
    /\ accepted = [j \in Jobs |-> FALSE]
    /\ executed = [j \in Jobs |-> 0]

\* (*job)()
RunJob(job) == [executed EXCEPT ![job] = @ + 1]

\* start: running_.exchange(true), then one thread per worker.
PoolStart ==
    /\ ~running_
    /\ stopPc = "idle"
    /\ \A w \in Workers : workerPc[w] = "none"
    /\ running_' = TRUE
    /\ workerPc' = [w \in Workers |-> "loop"]
    /\ UNCHANGED <<next_queue_, queues_, submitPc, submitArg, stopPc, nJobs,
                   accepted, executed>>

\* stop: running_.exchange(false); returns at once when the pool was not running.
StopExchange ==
    /\ stopPc = "idle"
    /\ running_
    /\ running_' = FALSE
    /\ stopPc' = "join"
    /\ UNCHANGED <<next_queue_, queues_, workerPc, submitPc, submitArg, nJobs,
                   accepted, executed>>

\* stop: every worker thread has been joined; workers_.clear() and return.
StopJoin ==
    /\ stopPc = "join"
    /\ \A w \in Workers : workerPc[w] = "done"
    /\ stopPc' = "returned"
    /\ UNCHANGED <<running_, next_queue_, queues_, workerPc, submitPc, submitArg,
                   nJobs, accepted, executed>>

\* submit: if (!running_) return false; idx = next_queue_.fetch_add(1) % num_workers.
SubmitCheck(s) ==
    /\ submitPc[s] = "idle"
    /\ nJobs < MaxJobs
    /\ nJobs' = nJobs + 1
    /\ IF running_
       THEN /\ next_queue_' = next_queue_ + 1
            /\ submitArg' = [submitArg EXCEPT ![s] =
                                [job |-> nJobs + 1, idx |-> next_queue_ % NumWorkers]]
            /\ submitPc' = [submitPc EXCEPT ![s] = "enqueue"]
       ELSE UNCHANGED <<next_queue_, submitArg, submitPc>>
    /\ UNCHANGED <<running_, queues_, workerPc, stopPc, accepted, executed>>

\* submit_to: if (!running_ || worker_id >= num_workers) return false.
SubmitToCheck(s, worker_id) ==
    /\ submitPc[s] = "idle"
    /\ nJobs < MaxJobs
    /\ nJobs' = nJobs + 1
    /\ IF running_ /\ worker_id < NumWorkers
       THEN /\ submitArg' = [submitArg EXCEPT ![s] = [job |-> nJobs + 1, idx |-> worker_id]]
            /\ submitPc' = [submitPc EXCEPT ![s] = "enqueue"]
       ELSE UNCHANGED <<submitArg, submitPc>>
    /\ UNCHANGED <<running_, next_queue_, queues_, workerPc, stopPc, accepted, executed>>

\* submit / submit_to: return queues_[idx]->enqueue(job); enqueue waits for
\* room, pushes at the back and returns true.
SubmitEnqueue(s) ==
    /\ submitPc[s] = "enqueue"
    /\ Len(queues_[submitArg[s].idx]) < PoolQueueSize
    /\ queues_' = [queues_ EXCEPT ![submitArg[s].idx] = Append(@, submitArg[s].job)]
    /\ accepted' = [accepted EXCEPT ![submitArg[s].job] = TRUE]
    /\ submitPc' = [submitPc EXCEPT ![s] = "idle"]
    /\ UNCHANGED <<running_, next_queue_, workerPc, submitArg, stopPc, nJobs, executed>>

\* worker_loop, lines 84-89: while (running_): local try_dequeue; a job found
\* is run, otherwise the worker goes to steal.
WorkerLoop(w) ==
    /\ workerPc[w] = "loop"
    /\ IF ~running_
       THEN /\ workerPc' = [workerPc EXCEPT ![w] = "drain"]
            /\ UNCHANGED <<queues_, executed>>
       ELSE IF queues_[w] # <<>>
       THEN /\ queues_' = [queues_ EXCEPT ![w] = Tail(@)]
            /\ executed' = RunJob(Head(queues_[w]))
            /\ UNCHANGED workerPc
       ELSE /\ workerPc' = [workerPc EXCEPT ![w] = "steal"]
            /\ UNCHANGED <<queues_, executed>>
    /\ UNCHANGED <<running_, next_queue_, submitPc, submitArg, stopPc, nJobs, accepted>>

\* try_steal, lines 101-107: a victim other than the worker itself, drawn at
\* random; the job at the back of its queue, if any, is taken and run.
WorkerSteal(w, victim) ==
    /\ workerPc[w] = "steal"
    /\ victim # w
    /\ IF queues_[victim] # <<>>
       THEN /\ queues_' = [queues_ EXCEPT ![victim] = SubSeq(@, 1, Len(@) - 1)]
            /\ executed' = RunJob(queues_[victim][Len(queues_[victim])])
       ELSE UNCHANGED <<queues_, executed>>
    /\ workerPc' = [workerPc EXCEPT ![w] = "loop"]
    /\ UNCHANGED <<running_, next_queue_, submitPc, submitArg, stopPc, nJobs, accepted>>

\* worker_loop, lines 95-98: the jobs left in the worker's own queue are run;
\* the thread ends when try_dequeue finds none.
WorkerDrain(w) ==
    /\ workerPc[w] = "drain"
    /\ IF queues_[w] # <<>>
       THEN /\ queues_' = [queues_ EXCEPT ![w] = Tail(@)]
            /\ executed' = RunJob(Head(queues_[w]))
            /\ UNCHANGED workerPc
       ELSE /\ workerPc' = [workerPc EXCEPT ![w] = "done"]
            /\ UNCHANGED <<queues_, executed>>
    /\ UNCHANGED <<running_, next_queue_, submitPc, submitArg, stopPc, nJobs, accepted>>

PoolNext ==
    \/ PoolStart
    \/ StopExchange
    \/ StopJoin
    \/ \E s \in Submitters : SubmitCheck(s)
    \/ \E s \in Submitters, worker_id \in 0..NumWorkers : SubmitToCheck(s, worker_id)
    \/ \E s \in Submitters : SubmitEnqueue(s)
    \/ \E w \in Workers : WorkerLoop(w)
    \/ \E w \in Workers, victim \in Workers : WorkerSteal(w, victim)
    \/ \E w \in Workers : WorkerDrain(w)

(***************************************************************************)
(* IoRing   (include/nebulastore/usrbio/ioring.h)                          *)
(* One submitting thread calls AddSqe and PopCqe and one IO thread calls   *)
(* PopSqe and CompleteSqe (the rings are single-producer single-consumer), *)
(* so each call is one step.  An IoArgs value is a number, 0 for the       *)
(* value-initialised one.                                                  *)
(***************************************************************************)
RingEntries == 2       \* the entries given to the constructor
NumIoArgs == 2         \* distinct IoArgs values passed to AddSqe
MaxAddSqe == 5         \* AddSqe calls in one behaviour

IoArgValues == 1..NumIoArgs

\* IoRing::RoundUpPow2: the least power of two that is at least v.
RECURSIVE Pow2AtLeast(_, _)
Pow2AtLeast(p, v) == IF p >= v THEN p ELSE Pow2AtLeast(2 * p, v)

RoundUpPow2(v) == Pow2AtLeast(1, v)

RingSlots == RoundUpPow2(RingEntries + 1)

VARIABLES
    sq_,          \* IoRing::sq_: [head_, tail_, entries_]
    cq_,          \* IoRing::cq_
    io_args_,     \* IoRing::io_args_: slot -> IoArgs
    next_index_,  \* IoRing::next_index_
    ioTaken,      \* the SQE indices the IO thread has popped and not yet completed
    ioHanded,     \* history: index -> the IoArgs of the AddSqe that returned it,
                  \* 0 when no SQE with that index is outstanding
    ioLast        \* the last call and its result

ringVars == <<sq_, cq_, io_args_, next_index_, ioTaken, ioHanded, ioLast>>

\* LockFreeRing(capacity): mask_ is capacity - 1 (a power of two is expected).
NewRing(capacity) ==
    [head_ |-> 0, tail_ |-> 0, entries_ |-> [i \in 0..(capacity - 1) |-> 0]]

\* LockFreeRing::Push: fails when the ring holds capacity - 1 entries.
Push(ring, entry) ==
    LET next == (ring.tail_ + 1) % RingSlots IN
    IF next = ring.head_
    THEN [ok |-> FALSE, ring |-> ring]
    ELSE [ok |-> TRUE,
          ring |-> [ring EXCEPT !.entries_[ring.tail_] = entry, !.tail_ = next]]

\* LockFreeRing::Pop
Pop(ring) ==
    IF ring.head_ = ring.tail_
    THEN [ok |-> FALSE, entry |-> 0, ring |-> ring]
    ELSE [ok |-> TRUE, entry |-> ring.entries_[ring.head_],
          ring |-> [ring EXCEPT !.head_ = (ring.head_ + 1) % RingSlots]]

\* IoRing::GetIoArgs
GetIoArgs(index) == io_args_[index % RingSlots]

RingInit ==
    /\ sq_ = NewRing(RingSlots)
    /\ cq_ = NewRing(RingSlots)
    /\ io_args_ = [i \in 0..(RingSlots - 1) |-> 0]
    /\ next_index_ = 0
    /\ ioTaken = {}
    /\ ioHanded = [i \in 0..(RingSlots - 1) |-> 0]
    /\ ioLast = [op |-> "none", result |-> 0]

\* IoRing::AddSqe: the slot is written first, then the SQE is pushed; -1
\* when the submission ring is full.
AddSqe(args) ==
    /\ next_index_ < MaxAddSqe
    /\ LET idx == next_index_ % RingSlots
           p == Push(sq_, idx)
       IN  /\ next_index_' = next_index_ + 1
           /\ io_args_' = [io_args_ EXCEPT ![idx] = args]
           /\ sq_' = p.ring
           /\ ioHanded' = IF p.ok THEN [ioHanded EXCEPT ![idx] = args] ELSE ioHanded
           /\ ioLast' = [op |-> "AddSqe", result |-> IF p.ok THEN idx ELSE -1]
    /\ UNCHANGED <<cq_, ioTaken>>

\* IoRing::PopSqe, by the IO thread.
PopSqe ==
    /\ LET p == Pop(sq_) IN
         /\ sq_' = p.ring
         /\ ioTaken' = IF p.ok THEN ioTaken \cup {p.entry} ELSE ioTaken
         /\ ioLast' = [op |-> "PopSqe", result |-> IF p.ok THEN p.entry ELSE -1]
    /\ UNCHANGED <<cq_, io_args_, next_index_, ioHanded>>

\* IoRing::CompleteSqe, by the IO thread for an SQE it has popped; false
\* when the completion ring is full.
CompleteSqe(index) ==
    /\ index \in ioTaken
    /\ LET p == Push(cq_, index) IN
         /\ cq_' = p.ring
         /\ ioTaken' = IF p.ok THEN ioTaken \ {index} ELSE ioTaken
         /\ ioHanded' = IF p.ok THEN [ioHanded EXCEPT ![index] = 0] ELSE ioHanded
         /\ ioLast' = [op |-> "CompleteSqe", result |-> IF p.ok THEN 1 ELSE 0]
    /\ UNCHANGED <<sq_, io_args_, next_index_>>

\* IoRing::PopCqe
PopCqe ==
    /\ LET p == Pop(cq_) IN
         /\ cq_' = p.ring
         /\ ioLast' = [op |-> "PopCqe", result |-> IF p.ok THEN p.entry ELSE -1]
    /\ UNCHANGED <<sq_, io_args_, next_index_, ioTaken, ioHanded>>

RingNext ==
    \/ \E args \in IoArgValues : AddSqe(args)
    \/ PopSqe
    \/ \E index \in 0..(RingSlots - 1) : CompleteSqe(index)
    \/ PopCqe

(***************************************************************************)
(* S3Router (include/nebulastore/protocol/s3_router.h) and                 *)
(* S3Handler::Handle: requests arrive as a method and a URI; the bucket    *)
(* name and the object key are the URL-decoded parts of the path, so       *)
(* either may hold a '/'.  Requests carry no query string and no headers.  *)
(***************************************************************************)
S3Uris ==
    { <<"/", "a">>,
      <<"/", "a", "%", "2", "F", "b">>,
      <<"/", "a", "/", "a">>,
      <<"/", "a", "/", "b", "/", "a">>,
      <<"/", "a", "%", "2", "F", "b", "/", "a">> }

S3Methods == {"PUT", "GET", "DELETE"}

\* s.find(c): the first position of c in s (from 1), 0 for npos
StrFind(s, c) ==
    IF \E i \in 1..Len(s) : s[i] = c
    THEN CHOOSE i \in 1..Len(s) : s[i] = c /\ \A j \in 1..(i - 1) : s[j] # c
    ELSE 0

\* The value of a hexadecimal digit, -1 for any other character.
HexVal(c) ==
    CASE c = "2" -> 2 [] c = "F" -> 15 [] c = "a" -> 10 [] c = "b" -> 11
      [] OTHER -> -1

\* sscanf(two characters, "%x", &hex): the conversions made and the value
ScanHex(c1, c2) ==
    IF HexVal(c1) < 0 THEN [n |-> 0, hex |-> 0]
    ELSE IF HexVal(c2) < 0 THEN [n |-> 1, hex |-> HexVal(c1)]
    ELSE [n |-> 1, hex |-> 16 * HexVal(c1) + HexVal(c2)]

\* static_cast<char>(hex)
CodeChar(hex) ==
    CHOOSE c \in {"/", ":", "B", "L", "O", "a", "b"} : CharCode(c) = hex

\* S3Router::UrlDecode, from position i (from 1) on
RECURSIVE UrlDecodeFrom(_, _)
UrlDecodeFrom(str, i) ==
    IF i > Len(str) THEN <<>>
    ELSE IF str[i] = "%" /\ i + 2 <= Len(str)
    THEN LET h == ScanHex(str[i + 1], str[i + 2]) IN
         IF h.n = 1 THEN <<CodeChar(h.hex)>> \o UrlDecodeFrom(str, i + 3)
         ELSE <<str[i]>> \o UrlDecodeFrom(str, i + 1)
    ELSE IF str[i] = "+" THEN <<" ">> \o UrlDecodeFrom(str, i + 1)
    ELSE <<str[i]>> \o UrlDecodeFrom(str, i + 1)

UrlDecode(str) == UrlDecodeFrom(str, 1)

\* S3Router::ParseUri
ParseUri(uri) ==
    LET query_pos == StrFind(uri, "?")
        p0 == IF query_pos # 0 THEN SubSeq(uri, 1, query_pos - 1) ELSE uri
        path == IF p0 # <<>> /\ p0[1] = "/" THEN Tail(p0) ELSE p0
        slash_pos == StrFind(path, "/")
    IN  IF path = <<>> THEN [bucket_name |-> <<>>, object_key |-> <<>>]
        ELSE IF slash_pos = 0
        THEN [bucket_name |-> UrlDecode(path), object_key |-> <<>>]
        ELSE [bucket_name |-> UrlDecode(SubSeq(path, 1, slash_pos - 1)),
              object_key |-> UrlDecode(SubSeq(path, slash_pos + 1, Len(path)))]

\* S3Router::DetermineOperation, for GET, PUT and DELETE
DetermineOperation(method, req) ==
    LET has_bucket == req.bucket_name # <<>>
        has_key == req.object_key # <<>>
    IN  CASE method = "GET" ->
                 IF ~has_bucket THEN "LIST_BUCKETS"
                 ELSE IF ~has_key THEN "LIST_OBJECTS" ELSE "GET_OBJECT"
          [] method = "PUT" ->
                 IF ~has_bucket THEN "UNKNOWN"
                 ELSE IF ~has_key THEN "CREATE_BUCKET" ELSE "PUT_OBJECT"
          [] method = "DELETE" ->
                 IF ~has_bucket THEN "UNKNOWN"
                 ELSE IF ~has_key THEN "DELETE_BUCKET" ELSE "DELETE_OBJECT"

\* S3Handler::HandleGetObject: NoSuchKey without the metadata record.
HandleGetObject(bucket, key) ==
    /\ nS3Ops < MaxS3Ops
    /\ S3Done(S3Req("get_object", bucket, key),
              IF GetObject(s3db, bucket, key).ok THEN 200 ELSE 404, s3db, NoList)

\* S3Handler::Handle: ParseRequest, then the handler of the operation;
\* max-keys is 1000 when the request names none.
Handle(method, uri, body_size) ==
    LET req == ParseUri(uri)
        op == DetermineOperation(method, req)
    IN  CASE op = "CREATE_BUCKET" -> HandleCreateBucket(req.bucket_name)
          [] op = "DELETE_BUCKET" -> HandleDeleteBucket(req.bucket_name)
          [] op = "LIST_OBJECTS" ->
                 HandleListObjects(req.bucket_name, <<>>, <<>>, 1000)
          [] op = "GET_OBJECT" -> HandleGetObject(req.bucket_name, req.object_key)
          [] op = "PUT_OBJECT" ->
                 HandlePutObject(req.bucket_name, req.object_key, body_size)
          [] op = "DELETE_OBJECT" ->
                 HandleDeleteObject(req.bucket_name, req.object_key)

S3UriNext ==
    \E method \in S3Methods, uri \in S3Uris, body_size \in BodySizes :
        Handle(method, uri, body_size)

vars == <<sfVars, treeVars, metaVars, txnVars, s3Vars, nsVars, engVars, idVars, codecVars, semVars, queueVars, poolVars, ringVars>>

(***************************************************************************)
(* SingleFlight: properties                                                *)
(***************************************************************************)

\* C1: if every Do call for key k looks the key up before the first call's fn
\* has returned and Forget(k) is never called, fn is invoked exactly once for
\* k (not at all only while the first call has not reached its fn yet).
C1_FnInvokedOnce ==
    \A k \in Keys :
        (sfFirst[k] # NoCall /\ ~sfLate[k] /\ ~sfForgot[k]) =>
            fnCount[k] = IF \E t \in Threads :
                                sfPc[t] = "call_fn" /\ sfLocal[t].c = sfFirst[k]
                         THEN 0 ELSE 1

\* Three threads have returned from Do on the first call of a key that was
\* neither forgotten nor looked up late, and fn ran once.
C1_Witness ==
    \E k \in Keys :
        /\ sfFirst[k] # NoCall /\ ~sfLate[k] /\ ~sfForgot[k] /\ fnCount[k] = 1
        /\ Cardinality({r \in sfHist : r.op = "Do" /\ r.c = sfFirst[k]}) >= 3

\* C2: every caller that shares an execution of fn (the caller that ran it and
\* every caller that waited on it) returns the value fn returned.
C2_SharedResult ==
    \A r \in sfHist :
        r.kind = "val" =>
            (fnResult[r.c].kind = "value" /\ r.val = fnResult[r.c].val)

\* C3 (as stated): at most one invocation of fn per key is executing at any
\* instant, whatever the interleaving of Do, TryPiggyback and Forget.
C3_AtMostOneFn ==
    \A k \in Keys : Cardinality(fnRunning[k]) <= 1

\* C3 (amended): at most one invocation of fn per key is executing at any
\* instant, as long as no Forget(k) has removed an entry whose call was still
\* in flight.
C3_AtMostOneFnUnlessForgotInFlight ==
    \A k \in Keys : ~sfForgotInFlight[k] => Cardinality(fnRunning[k]) <= 1

\* Forget(k) was called with nothing in flight, fn has run for k before and a
\* second invocation is executing now, alone.
C3_Witness ==
    \E k \in Keys :
        /\ sfForgot[k] /\ ~sfForgotInFlight[k]
        /\ fnCount[k] >= 2 /\ Cardinality(fnRunning[k]) = 1

\* C23: when fn throws during Do(k, fn), the caller that ran fn and every
\* caller that waited on that call, through Do or TryPiggyback, rethrows the
\* exception kept in the Call; none of them returns a value.
C23_ErrorPropagation ==
    \A r \in sfHist :
        (r.c # NoCall /\ fnResult[r.c] = Thrown) => r.kind = "err"

\* fn threw, and the caller that ran it, a caller that joined it through Do
\* and one that joined it through TryPiggyback have all come back.
C23_Witness ==
    \E c \in 1..MaxCalls :
        /\ fnResult[c] = Thrown
        /\ \E r \in sfHist : r.c = c /\ r.role = "leader" /\ r.kind = "err"
        /\ \E r \in sfHist : r.c = c /\ r.role = "waiter" /\ r.op = "Do" /\ r.kind = "err"
        /\ \E r \in sfHist : r.c = c /\ r.op = "TryPiggyback" /\ r.kind = "err"

\* C24: TryPiggyback(k) never runs fn; it returns "no call in flight" when
\* the map holds no call for k, and otherwise returns once the call it found
\* has completed, with what that call's fn produced.
C24_PiggybackResult ==
    \A r \in sfHist :
        r.op = "TryPiggyback" =>
            /\ r.role # "leader"
            /\ \/ r.kind = "nullopt" /\ r.c = NoCall
               \/ /\ r.c # NoCall
                  /\ callObj[r.c].done
                  /\ \/ r.kind = "err" /\ fnResult[r.c] = Thrown
                     \/ r.kind = "val" /\ fnResult[r.c] = Returned(r.val)

\* C33: a Do call that finishes removes from the in-flight map only the
\* entry it created itself: an entry that holds another Call (registered by
\* a newer Do after a Forget) is left in the map.
C33_EraseOwnEntry ==
    [][\A t \in Threads :
          (sfPc[t] = "erase" /\ sfPc'[t] = "notify") =>
              \A k \in Keys :
                  (calls_[k] # NoCall /\ calls_[k] # sfLocal[t].c) =>
                      calls_'[k] = calls_[k]]_vars

(***************************************************************************)
(* SliceTree: properties                                                   *)
(***************************************************************************)

\* C4: after any sequence of Insert calls, Build returns slices in strictly
\* ascending file offset, no two of them overlapping.
C4_BuildOrdered ==
    treeStatus = "ok" =>
        LET b == Build("x") IN
        /\ b.ok
        /\ \A i \in 1..(Len(b.slices) - 1) :
              /\ b.slices[i].offset < b.slices[i + 1].offset
              /\ b.slices[i].offset + b.slices[i].size <= b.slices[i + 1].offset

\* The file positions the Insert calls of a behaviour can touch.
Positions == 0..(MaxPos + MaxLen)

\* History: some Insert covered p; the last Insert that did.
Covered(p) == \E i \in 1..Len(inserted) :
                  inserted[i].pos <= p /\ p < inserted[i].pos + inserted[i].len
LastWriter(p) ==
    CHOOSE i \in 1..Len(inserted) :
        /\ inserted[i].pos <= p /\ p < inserted[i].pos + inserted[i].len
        /\ \A j \in (i + 1)..Len(inserted) :
              ~(inserted[j].pos <= p /\ p < inserted[j].pos + inserted[j].len)

\* C5: after any sequence of Insert calls, Find(p) returns a node whose range
\* holds p if some Insert covered p, and null otherwise.
C5_FindCoverage ==
    treeStatus = "ok" =>
        \A p \in Positions :
            LET f == Find(p) IN
            /\ f.ok
            /\ IF Covered(p)
               THEN f.r # Null /\ heap[f.r].pos <= p /\ p < End(heap[f.r])
               ELSE f.r = Null

\* C6: for every covered position p, Find(p) returns a node carrying the id of
\* the last Insert that covered p, and maps p to the same offset in storage as
\* that Insert did.
C6_LastWriterWins ==
    treeStatus = "ok" =>
        \A p \in Positions :
            Covered(p) =>
                LET f == Find(p)
                    w == inserted[LastWriter(p)]
                IN  /\ f.ok
                    /\ f.r # Null
                    /\ heap[f.r].id = w.id
                    /\ heap[f.r].off + (p - heap[f.r].pos) = w.off + (p - w.pos)

\* The nodes reachable from the nodes of S by left and right pointers.
RECURSIVE Reachable(_, _)
Reachable(h, S) ==
    LET T == (S \cup {h[n].left : n \in S} \cup {h[n].right : n \in S}) \ {Null} IN
    IF T = S THEN S ELSE Reachable(h, T)

\* The nodes of the tree whose root is root.
TreeNodes(h, root) == Reachable(h, {root} \ {Null})

\* C25: an Insert of [P, P+L) that returns leaves every node of the tree
\* whose range is disjoint from [P, P+L) in the tree, with its pos, len, off
\* and id unchanged.
C25_CutFrame ==
    [][(Len(inserted') = Len(inserted) + 1 /\ treeStatus' = "ok") =>
          LET ins == inserted'[Len(inserted')] IN
          \A n \in TreeNodes(heap, root_) :
              (End(heap[n]) <= ins.pos \/ heap[n].pos >= ins.pos + ins.len) =>
                  /\ n \in TreeNodes(heap', root_')
                  /\ heap'[n].pos = heap[n].pos
                  /\ heap'[n].len = heap[n].len
                  /\ heap'[n].off = heap[n].off
                  /\ heap'[n].id = heap[n].id]_vars

\* C26: after any sequence of Insert calls, GetRange(start, end) returns
\* exactly the nodes of the tree whose range [pos, pos+len) intersects
\* [start, end), each once, in ascending file offset.
C26_GetRangeExact ==
    treeStatus = "ok" =>
        \A start \in Positions, end \in Positions :
            start < end =>
                LET g == GetRange(start, end) IN
                /\ g.ok
                /\ {g.s[i] : i \in 1..Len(g.s)} =
                       {n \in TreeNodes(heap, root_) :
                           heap[n].pos < end /\ End(heap[n]) > start}
                /\ \A i \in 1..Len(g.s), j \in 1..Len(g.s) :
                       i < j => heap[g.s[i]].pos < heap[g.s[j]].pos

\* The pointers into node n from the nodes of the tree.
ParentEdges(h, root, n) ==
    {<<m, side>> \in TreeNodes(h, root) \X {"left", "right"} :
        (IF side = "left" THEN h[m].left ELSE h[m].right) = n}

\* C32: after any sequence of Insert calls the structure reachable from the
\* root is a finite binary tree (nothing points at the root and exactly one
\* pointer leads to every other node, so no node is its own descendant and
\* none is reached by two paths), and Build, Find and GetRange terminate.
C32_FiniteTree ==
    treeStatus = "ok" =>
        /\ \A n \in TreeNodes(heap, root_) :
              Cardinality(ParentEdges(heap, root_, n)) = IF n = root_ THEN 0 ELSE 1
        /\ Build("x").ok
        /\ \A p \in Positions : Find(p).ok
        /\ \A start \in Positions, end \in Positions :
              start < end => GetRange(start, end).ok

(***************************************************************************)
(* Metadata engine: properties                                             *)
(***************************************************************************)
StoredRecords == [pt \in Partitions |-> parts[pt].db]
StoredDentryKeys(pt) == {k \in DOMAIN parts[pt].db : k[1] = "D"}
InodeStored(inode) ==
    EncodeInodeKey(inode) \in DOMAIN parts[LocatePartition(inode)].db

\* C7: after a create_dentry(p, n, i, _) succeeded on a partition and no
\* delete of (p, n) intervened, a create_dentry(p, n, ...) on that partition
\* returns Exist and the stored dentry (p, n) still refers to i.
C7_DentryUniqueness ==
    (lastOp.op = "create_dentry" /\ lastOp.prior # 0) =>
        /\ lastOp.st = "Exist"
        /\ LET k == EncodeDentryKey(lastOp.key[1], lastOp.key[2]) IN
           /\ k \in DOMAIN parts[lastOp.pt].db
           /\ DecodeDentryValue(parts[lastOp.pt].db[k]).inode_id = lastOp.prior

\* C8: a create call that returns an error leaves the stored inode records
\* and dentries exactly as they were before the call.
C8_CreateAllOrNothing ==
    [][(nOps' # nOps /\ lastOp'.op = "create" /\ lastOp'.st # "OK")
          => StoredRecords' = StoredRecords]_vars

\* C9: every stored dentry (p, n) -> i refers to an inode i whose record is
\* stored in the partition that owns i.
C9_DentryInodeConsistency ==
    \A pt \in Partitions : \A k \in StoredDentryKeys(pt) :
        InodeStored(DecodeDentryValue(parts[pt].db[k]).inode_id)

\* A rename has just added a dentry, and some stored dentry refers to an
\* inode that lives in another partition than the dentry.
C9_Witness ==
    /\ lastOp.op = "rename" /\ lastOp.st = "OK"
    /\ \E pt \in Partitions : \E k \in StoredDentryKeys(pt) :
           LocatePartition(DecodeDentryValue(parts[pt].db[k]).inode_id) # pt

\* C10: two overlapping create calls for the same path, both started with
\* the root in place: exactly one returns OK and the other Exist, the path
\* resolves to the inode of the successful call, and the inode of the other
\* call is not stored.
C10_ConcurrentCreate ==
    ( /\ \A t \in ConcThreads : thr[t].pc = "done" /\ thr[t].overlap
                                  /\ thr[t].rootAtStart
      /\ thr[1].path = thr[2].path
      /\ SplitParentChild(thr[1].path).name # <<>> )
    => \E w \in ConcThreads : \E l \in ConcThreads \ {w} :
           /\ thr[w].st = "OK"
           /\ thr[l].st = "Exist"
           /\ LET r == LookupPath(parts, thr[w].path) IN
                  r.st = "OK" /\ r.inode_id = thr[w].new_inode
           /\ thr[l].new_inode = 0 \/ ~InodeStored(thr[l].new_inode)

InRange(pt, inode) == inode >= start_inode(pt) /\ inode < end_inode(pt)

C28_CacheBackedByStore ==
    \A pt \in Partitions :
        /\ \A inode \in DOMAIN parts[pt].inode_tree_ :
              /\ EncodeInodeKey(inode) \in DOMAIN parts[pt].db
              /\ parts[pt].db[EncodeInodeKey(inode)] =
                     EncodeInodeValue(parts[pt].inode_tree_[inode])
        /\ \A k \in DOMAIN parts[pt].dentry_tree_ :
              /\ EncodeDentryKey(k[1], k[2]) \in DOMAIN parts[pt].db
              /\ parts[pt].db[EncodeDentryKey(k[1], k[2])] =
                     EncodeDentryValue(parts[pt].dentry_tree_[k])

\* The path names a directory other than the root that holds a dentry.
NonEmptyDirectory(path) ==
    /\ WellFormed(path)
    /\ SplitParentChild(path).name # <<>>
    /\ LookupPath(parts, path).st = "OK"
    /\ LET inode == LookupPath(parts, path).inode_id IN
       /\ \E pt \in Partitions : \E k \in StoredDentryKeys(pt) : k[2] = inode
       /\ \E pt \in Partitions :
              /\ EncodeInodeKey(inode) \in DOMAIN parts[pt].db
              /\ IsDirectory(parts[pt].db[EncodeInodeKey(inode)].mode)

\* C30: rmdir(path) on a directory that still holds a dentry returns the
\* not-empty error and the stored records stay as they were.
C30_RmdirNotEmpty ==
    [][\A path \in Paths :
          (NonEmptyDirectory(path) /\ SvcRmdir(path)) =>
              /\ lastOp'.st = "NotEmpty"
              /\ [pt \in Partitions |-> parts'[pt].db] = StoredRecords]_vars

(***************************************************************************)
(* RocksDBTransaction: properties                                          *)
(***************************************************************************)
\* A lookup of the put's key returns the put's value.
Visible(put) == put.key \in DOMAIN kvdb /\ kvdb[put.key] = put.value

\* The puts of a batch that no later put of the batch overwrites.
BatchPuts(batch) ==
    {batch[i] : i \in {i \in 1..Len(batch) :
                          \A j \in (i + 1)..Len(batch) : batch[j].key # batch[i].key}}

AttrOf(inode) ==
    PartLookup(parts[LocatePartition(inode)], inode).attr

\* C12: right after update_size(i, s) has returned success, the size that
\* get_attr reports for inode i is at least s.
C12_LayoutSizeMonotonic ==
    (lastOp.op = "update_size" /\ lastOp.st = "OK")
        => AttrOf(lastOp.key[1]).size >= lastOp.key[2]

\* C13: right after set_attr(path, attr, mask) has returned success,
\* get_attr(path) reports, for mode (bit 0), uid (bit 1), gid (bit 2) and
\* size (bit 3), the field of attr when the bit is set in mask and the value
\* from before the call otherwise, whatever bits 5 and above are.  (mtime,
\* bit 4, is not part of the model's inode record.)
C13_SetAttrMask ==
    (lastOp.op = "set_attr" /\ lastOp.st = "OK") =>
        LET attr == lastOp.key[2]
            to_set == lastOp.key[3]
            prev == lastOp.key[4]
            now == GetAttr(parts, lastOp.key[1]).attr IN
        /\ now.mode = IF MaskHas(to_set, ATTR_MODE) THEN attr.mode ELSE prev.mode
        /\ now.uid = IF MaskHas(to_set, ATTR_UID) THEN attr.uid ELSE prev.uid
        /\ now.gid = IF MaskHas(to_set, ATTR_GID) THEN attr.gid ELSE prev.gid
        /\ now.size = IF MaskHas(to_set, ATTR_SIZE) THEN attr.size ELSE prev.size

(***************************************************************************)
(* S3 gateway: properties                                                  *)
(***************************************************************************)
\* The keys of the objects a bucket holds.
BucketKeys(db, bucket) == {k \in ObjKeys : ObjectExists(db, bucket, k)}

\* {k in bucket : k > marker and k starts with prefix}
Matching(db, bucket, prefix, marker) ==
    {k \in BucketKeys(db, bucket) : StrLess(marker, k) /\ StartsWith(k, prefix)}

ListAnswered == s3Last.req.op = "list_objects" /\ s3Last.status_code = 200

\* C14: list_objects(bucket, prefix, m, max_keys) returns the first max_keys
\* keys, in ascending order, of {k in bucket : k > m and k starts with
\* prefix}, and all of them when there are fewer.
C14_MarkerSemantics ==
    ListAnswered =>
        LET all == Ascending(Matching(s3db, s3Last.req.bucket,
                                      s3Last.list.prefix, s3Last.list.marker))
            n == s3Last.list.max_keys IN
        s3Last.list.objects = SubSeq(all, 1, IF Len(all) < n THEN Len(all) ELSE n)

\* C15: list_objects(bucket, prefix, "", n) with n >= 0 returns at most n
\* entries, in strictly ascending key order, each starting with prefix.
C15_ListOrdering ==
    (ListAnswered /\ s3Last.list.marker = <<>>) =>
        LET objects == s3Last.list.objects IN
        /\ Len(objects) <= s3Last.list.max_keys
        /\ \A i \in 1..(Len(objects) - 1) : StrLess(objects[i], objects[i + 1])
        /\ \A i \in 1..Len(objects) : StartsWith(objects[i], s3Last.list.prefix)

RECURSIVE SumSizes(_, _, _)
SumSizes(db, bucket, keys) ==
    IF keys = {} THEN 0
    ELSE LET k == CHOOSE x \in keys : TRUE IN
         GetObject(db, bucket, k).meta.size + SumSizes(db, bucket, keys \ {k})

C18_IsTruncated ==
    ListAnswered =>
        LET objects == s3Last.list.objects
            last == IF objects = <<>> THEN s3Last.list.marker
                    ELSE objects[Len(objects)] IN
        s3Last.list.is_truncated <=>
            \E k \in Matching(s3db, s3Last.req.bucket, s3Last.list.prefix,
                              s3Last.list.marker) : StrLess(last, k)

\* The bucket names and object keys that requests name.
UriBuckets == {ParseUri(uri).bucket_name : uri \in S3Uris}
UriKeys == {ParseUri(uri).object_key : uri \in S3Uris} \ {<<>>}

\* C40: put_object or delete_object on (b1, k1) leaves the result of
\* get_object(b2, k2) as it was for every other (b2, k2), and
\* list_objects(b2) returns only objects that were put into b2.
C40_NoAlias ==
    /\ [][(nS3Ops' = nS3Ops + 1 /\ s3Last'.req.op \in {"put_object", "delete_object"}) =>
             \A b2 \in UriBuckets, k2 \in UriKeys :
                 <<b2, k2>> # <<s3Last'.req.bucket, s3Last'.req.key>> =>
                     GetObject(s3db', b2, k2) = GetObject(s3db, b2, k2)]_vars
    /\ [](\A b2 \in UriBuckets :
             LET objects == ListObjects(s3db, b2, <<>>, <<>>, 1000) IN
             \A i \in 1..Len(objects) : objects[i].bucket = b2)

(***************************************************************************)
(* Rename: properties                                                      *)
(***************************************************************************)
\* C19: right after rename(old, new) has returned success, lookup_path(old)
\* fails with NotFound and lookup_path(new) returns the inode that old
\* resolved to before the call.
C19_RenameMoves ==
    (lastOp.op = "rename" /\ lastOp.st = "OK" /\ lastOp.key # <<>>) =>
        /\ LookupPath(parts, lastOp.key[1]).st = "NotFound"
        /\ LookupPath(parts, lastOp.key[2]).st = "OK"
        /\ LookupPath(parts, lastOp.key[2]).inode_id = lastOp.key[3]

(***************************************************************************)
(* NamespaceService: properties                                            *)
(***************************************************************************)
\* The writes to an inode whose slice covers position pos, by their index.
Covering(inode, pos) ==
    {i \in 1..Len(nsWrites) :
        /\ nsWrites[i].inode = inode
        /\ pos >= nsWrites[i].offset
        /\ pos < nsWrites[i].offset + Len(nsWrites[i].data)}

\* The size of the file: the end of its farthest slice.
FileSize(inode) ==
    LET ends == {nsWrites[i].offset + Len(nsWrites[i].data) :
                    i \in {i \in 1..Len(nsWrites) : nsWrites[i].inode = inode}} IN
    IF ends = {} THEN 0 ELSE CHOOSE e \in ends : \A f \in ends : f <= e

\* The byte at pos: that of the last-written slice covering it, 0 in a hole.
ByteAt(inode, pos) ==
    LET c == Covering(inode, pos) IN
    IF c = {} THEN 0
    ELSE LET i == CHOOSE i \in c : \A j \in c : j <= i IN
         nsWrites[i].data[pos - nsWrites[i].offset + 1]

\* C20: a read(path, offset, size) of an existing file returns success and
\* the bytes of the range below the file size, each from the slice covering
\* its position and zero where no slice covers it.
C20_ReadSpansSlices ==
    (nsLast.op = "read" /\ nsLast.inode # 0) =>
        LET inode == nsLast.inode
            end == Min(nsLast.offset + nsLast.size, FileSize(inode))
            n == IF end > nsLast.offset THEN end - nsLast.offset ELSE 0 IN
        /\ nsLast.st = "OK"
        /\ nsLast.data = [i \in 1..n |-> ByteAt(inode, nsLast.offset + i - 1)]

(***************************************************************************)
(* KVMetaEngine layout: properties                                         *)
(***************************************************************************)
SlicesAscending(slices) ==
    \A i \in 1..Len(slices), j \in 1..Len(slices) :
        i < j => slices[i].offset < slices[j].offset

SlicesDisjoint(slices) ==
    \A i \in 1..Len(slices), j \in 1..Len(slices) :
        i < j => \/ slices[i].offset + slices[i].size <= slices[j].offset
                 \/ slices[j].offset + slices[j].size <= slices[i].offset

\* C21: after any sequence of add_slice calls on an inode, get_layout
\* returns the slices in ascending file offset and no two of them overlap.
C21_LayoutInvariant ==
    engLast.op = "get_layout" =>
        /\ SlicesAscending(engLast.slices)
        /\ SlicesDisjoint(engLast.slices)

\* A recorded slice is live while some position of its range has no later
\* write over it.
LiveSlice(i) ==
    \E pos \in nsWrites[i].offset..(nsWrites[i].offset + Len(nsWrites[i].data) - 1) :
        \A j \in Covering(nsWrites[i].inode, pos) : j <= i

\* C22: the slice of every successful write has a storage key different
\* from that of every earlier slice that is still live, so the chunk under
\* the key of a live slice still holds the bytes that slice was written with.
C22_UniqueStorageKeys ==
    \A i \in 1..Len(nsWrites), j \in 1..Len(nsWrites) :
        (j < i /\ nsWrites[i].st = "OK" /\ nsWrites[j].st = "OK" /\ LiveSlice(j)) =>
            /\ nsWrites[i].storage_key # nsWrites[j].storage_key
            /\ chunks[nsWrites[j].storage_key] = nsWrites[j].data

(***************************************************************************)
(* GenerateInodeID: properties                                             *)
(***************************************************************************)
\* C29: on a fresh service GenerateInodeID hands out 2, 3, 4, ... in call
\* order; under concurrent callers the returned ids are distinct, none is
\* the root id 1, and once n calls have returned and none is under way the
\* returned ids are exactly 2 .. n+1.
C29_InodeAllocation ==
    /\ \A i \in 1..Len(idIssued) : idIssued[i] = i + 1
    /\ \A i \in 1..Len(idHist), j \in 1..Len(idHist) :
           i # j => idHist[i].id # idHist[j].id
    /\ \A i \in 1..Len(idHist) : idHist[i].id # 1
    /\ (\A t \in IdThreads : idPc[t] = "idle") =>
           {idHist[i].id : i \in 1..Len(idHist)} = 2..(Len(idHist) + 1)

\* Three threads have called GenerateInodeID, one of them twice, the returns
\* came in another order than the calls, and no call is under way.
C29_Witness ==
    /\ Len(idHist) = MaxIdCalls
    /\ {idHist[i].t : i \in 1..Len(idHist)} = IdThreads
    /\ \E i \in 1..(Len(idHist) - 1) : idHist[i].id > idHist[i + 1].id
    /\ \A t \in IdThreads : idPc[t] = "idle"

(***************************************************************************)
(* RocksDBStore codecs: properties                                         *)
(***************************************************************************)

(* C31: decoding the encoding of a Dentry, InodeAttr or FileLayout yields  *)
(* a record equal to the original in every field.                          *)
C31_CodecRoundTrip ==
    codecOut # NoCodec => codecOut.v = codecIn.v

(***************************************************************************)
(* Semaphore: properties                                                   *)
(***************************************************************************)

\* C34: the acquisitions completed (wait returned, try_wait returned true,
\* co_wait resumed) never exceed the count given at construction plus the
\* signal calls made.
C34_Conservation ==
    semAcquired <= semInitial + semSignals

(***************************************************************************)
(* BoundedQueue: properties                                                *)
(***************************************************************************)

\* C35: the number of items held by the queue never exceeds the capacity
\* given at construction.
C35_Capacity ==
    Len(queue_) <= capacity_

\* C36: every item handed to a consumer was enqueued and is handed out once,
\* and no dequeue-side operation takes the front of an empty queue.
C36_TakenOnce ==
    /\ ~qEmptyPop
    /\ \A i \in QItems : qTaken[i] <= 1 /\ qTaken[i] <= qPushed[i]

\* C37: a coroutine suspended in co_enqueue is resumed and its item enqueued
\* once the queue has room.
C37_ProducerResumed ==
    \A p \in QCallers :
        (qPc[p] = "co_enqueue_suspended" /\ Len(queue_) < capacity_)
            ~> (/\ qPc[p] # "co_enqueue_suspended"
                /\ qArg[p] \in QItems
                /\ qPushed[qArg[p]] > 0)

(***************************************************************************)
(* CoroutinesPool: properties                                              *)
(***************************************************************************)

\* C38: no job is run twice, and once stop() has returned every job for
\* which submit or submit_to returned true has been run and none is left in
\* a queue.
C38_AcceptedJobsRun ==
    /\ \A j \in Jobs : executed[j] <= 1
    /\ stopPc = "returned" =>
          /\ \A j \in Jobs : accepted[j] => executed[j] = 1
          /\ \A w \in Workers : queues_[w] = <<>>

(***************************************************************************)
(* IoRing: properties                                                      *)
(***************************************************************************)

\* C39: from the return of the AddSqe call that handed out index i until
\* that SQE has been popped and completed, GetIoArgs(i) is the IoArgs that
\* was passed to that call.
C39_SlotStable ==
    \A i \in 0..(RingSlots - 1) :
        ioHanded[i] # 0 => GetIoArgs(i) = ioHanded[i]

(***************************************************************************)
(* Specifications: one per component, the other components stand still.    *)
(***************************************************************************)
Init == SfInit /\ TreeInit /\ MetaInit /\ TxnInit /\ S3Init /\ NsInit /\ EngInit /\ IdInit /\ CodecInit /\ SemInit /\ QInit /\ PoolInit /\ RingInit

SpecSF == Init /\ [][SfNext /\ UNCHANGED <<treeVars, metaVars, txnVars, s3Vars, nsVars, engVars, idVars, codecVars, semVars, queueVars, poolVars, ringVars>>]_vars

SpecTree == Init /\ [][TreeNext /\ UNCHANGED <<sfVars, metaVars, txnVars, s3Vars, nsVars, engVars, idVars, codecVars, semVars, queueVars, poolVars, ringVars>>]_vars

SpecPart == Init /\ [][PartNext /\ UNCHANGED <<sfVars, treeVars, txnVars, s3Vars, nsVars, engVars, idVars, codecVars, semVars, queueVars, poolVars, ringVars>>]_vars

SpecMeta == Init /\ [][MetaNext /\ UNCHANGED <<sfVars, treeVars, txnVars, s3Vars, nsVars, engVars, idVars, codecVars, semVars, queueVars, poolVars, ringVars>>]_vars

SpecConc == Init /\ [][ConcNext /\ UNCHANGED <<sfVars, treeVars, txnVars, s3Vars, nsVars, engVars, idVars, codecVars, semVars, queueVars, poolVars, ringVars>>]_vars

SpecAttr == Init /\ [][AttrNext /\ UNCHANGED <<sfVars, treeVars, txnVars, s3Vars, nsVars, engVars, idVars, codecVars, semVars, queueVars, poolVars, ringVars>>]_vars

SpecRename == Init /\ [][RenameNext /\ UNCHANGED <<sfVars, treeVars, txnVars, s3Vars, nsVars, engVars, idVars, codecVars, semVars, queueVars, poolVars, ringVars>>]_vars

SpecTxn == Init /\ [][TxnNext /\ UNCHANGED <<sfVars, treeVars, metaVars, s3Vars, nsVars, engVars, idVars, codecVars, semVars, queueVars, poolVars, ringVars>>]_vars

SpecS3 == Init /\ [][S3Next /\ UNCHANGED <<sfVars, treeVars, metaVars, txnVars, nsVars, engVars, idVars, codecVars, semVars, queueVars, poolVars, ringVars>>]_vars

SpecNs == Init /\ [][NsNext /\ UNCHANGED <<sfVars, treeVars, txnVars, s3Vars, engVars, idVars, codecVars, semVars, queueVars, poolVars, ringVars>>]_vars

SpecEngine == Init /\ [][EngNext /\ UNCHANGED <<sfVars, treeVars, metaVars, txnVars, s3Vars, nsVars, idVars, codecVars, semVars, queueVars, poolVars, ringVars>>]_vars

SpecIds == Init /\ [][IdNext /\ UNCHANGED <<sfVars, treeVars, txnVars, s3Vars, nsVars, engVars, codecVars, semVars, queueVars, poolVars, ringVars>>]_vars

SpecCodec == Init /\ [][CodecNext /\ UNCHANGED <<sfVars, treeVars, metaVars, txnVars, s3Vars, nsVars, engVars, idVars, semVars, queueVars, poolVars, ringVars>>]_vars

SpecSem == Init /\ [][SemNext /\ UNCHANGED <<sfVars, treeVars, metaVars, txnVars, s3Vars, nsVars, engVars, idVars, codecVars, queueVars, poolVars, ringVars>>]_vars

SpecQueue == Init /\ [][QNext /\ UNCHANGED <<sfVars, treeVars, metaVars, txnVars, s3Vars, nsVars, engVars, idVars, codecVars, semVars, poolVars, ringVars>>]_vars

SpecPool == Init /\ [][PoolNext /\ UNCHANGED <<sfVars, treeVars, metaVars, txnVars, s3Vars, nsVars, engVars, idVars, codecVars, semVars, queueVars, ringVars>>]_vars

SpecRing == Init /\ [][RingNext /\ UNCHANGED <<sfVars, treeVars, metaVars, txnVars, s3Vars, nsVars, engVars, idVars, codecVars, semVars, queueVars, poolVars>>]_vars

SpecS3Uri == Init /\ [][S3UriNext /\ UNCHANGED <<sfVars, treeVars, metaVars, txnVars, nsVars, engVars, idVars, codecVars, semVars, queueVars, poolVars, ringVars>>]_vars

\* The queue with calls under way going on: a thread that can take a step
\* eventually takes one; no caller is obliged to start a further call.
SpecQueueFair == SpecQueue /\ WF_queueVars(QContinue)

=============================================================================
